---- MODULE Spec2Model ----
(***************************************************************************)
(* Model of the Mafia game session engine (src/engine.py, GameManager).    *)
(*                                                                         *)
(* The engine runs on one asyncio event loop with concurrent update        *)
(* handling (src/main.py, concurrent_updates(True)): a coroutine runs      *)
(* atomically up to its next suspending await (a Telegram call, a db call, *)
(* asyncio.sleep, a contended lock).  Every action below is one such       *)
(* segment of a handler or of the countdown task.                          *)
(***************************************************************************)
EXTENDS Naturals, Integers, Sequences, FiniteSets, TLC

\* ------------------------------------------------------------------ bounds
\* Scope keys (chat ids) the registry is exercised with.
NumKeys == 2
\* Concurrent ensure_game callers.
NumCallers == 3

\* start_night is followed MaxNights times in a run.
MaxNights == 2
\* random.choice over targets draws among the first RandWidth candidates.
RandWidth == 2
\* A human presses one of the first ButtonWidth buttons of a keyboard.
ButtonWidth == 2
\* The user ids 1..NumActors press buttons; the other humans stay silent.
NumActors == 5
\* start_new_game is called until the Store holds MaxGames games.
MaxGames == 2
\* Join and add-bot requests arrive while the roster is shorter than MaxRoster.
MaxRoster == 6
\* At most MaxHandlers handler coroutines are in flight at once.
MaxHandlers == 2
\* start_game accepts a request MaxStarts times in a run.
MaxStarts == 2
\* The user ids 1..NumUsers ask to join.
NumUsers == 1
\* The add-bot button is pressed once BotsAfter humans are in the lobby.
BotsAfter == 1
\* The user ids 1..NumVoters press the vote buttons.
NumVoters == 2
\* random.shuffle returns one of the first ShuffleWidth rotations.
ShuffleWidth == 2
\* An unused nomination keyboard of an earlier vote has buttons for the ids
\* 1..OldButtons.
OldButtons == 6
\* In the runs of the lobby alone the user ids 1..NumJoiners ask to join.
NumJoiners == 5
\* In the runs with two sessions the user ids 1..NumPressers press buttons.
NumPressers == 2
\* The process is restarted until the Store has been asked MaxLoads times for
\* Chat's game.
MaxLoads == 1
\* In the runs of the role assignment alone random.shuffle yields the first
\* DealWidth rotations of the pool (all of them).
DealWidth == 10
\* The lobbies of those runs hold at most MaxHumans humans.
MaxHumans == 4

\* ------------------------------------------------------- program constants
MIN_PLAYERS == 5
MAX_PLAYERS == 10
MAX_BOTS == 6
\* config.MAFIA_EXTRA_THRESHOLD, config.ALLOW_DEPUTY and config.ALLOW_CONSILGIERE
\* are read by assign_roles but are not set in src/config.py; their values
\* are taken from the specification (threshold 8, optional roles enabled).
MAFIA_EXTRA_THRESHOLD == 8
ALLOW_DEPUTY == TRUE
ALLOW_CONSILGIERE == TRUE
ALLOW_MAYOR == TRUE
ALLOW_PETRUSHKA == TRUE

\* The distinguished scope key whose GameState is modelled in detail.
Chat == 1
Keys == 1..NumKeys
Callers == 1..NumCallers

\* visual.ROLE_LABELS keys, in dictionary order.
ROLE_LABELS ==
  <<"don", "mafia", "doctor", "detective", "deputy", "consigliere",
    "mayor", "executioner", "civil", "petrushka">>
Roles == {ROLE_LABELS[i] : i \in 1..Len(ROLE_LABELS)}
MafiaRoles == {"don", "mafia", "consigliere"}
Phases == {"lobby", "night", "day", "vote", "ended"}

\* None for optional ids (pids and user ids start at 1).
None == 0

VARIABLES
  games,                 \* GameManager.games: key -> instance id (None: absent)
  lock,                  \* GameManager.lock: holding caller, or None
  callers,               \* ensure_game coroutines: caller -> [pc, key, result]
  loads,                 \* Store.load_active_game calls made, per key
  nextInst,              \* GameState objects constructed so far
  other,                 \* the GameState of the second chat, as the handlers read it
  db_games,              \* Store table games: game id -> [chat, ended, winner]
  db_rows,               \* Store table game_players: rows in insertion order
  phase,                 \* GameState.phase of Chat ("absent": no object yet)
  round_no,              \* GameState.round_no
  game_id,               \* GameState.game_id
  bukovel,               \* GameState.bukovel
  players,               \* GameState.players: pid -> PlayerState (pids are 1..n)
  vote_yes_no,           \* GameState.vote_yes_no: user id -> BOOLEAN
  nominations,           \* GameState.nominations, in insertion order: <<pid, target>>
  confirmations,         \* GameState.confirmations: pid -> BOOLEAN
  pending_candidate,     \* GameState.pending_candidate
  executioner_immunity,  \* GameState.executioner_immunity
  countdown,             \* the countdown task held in GameState.countdown_task
  handlers,              \* start_game / start_new_game coroutines in flight
  hist                   \* history: what the claims compare against

mgrVars == <<games, lock, callers, loads, nextInst>>
regVars == <<mgrVars, other>>
dbVars == <<db_games, db_rows>>
gameVars ==
  <<phase, round_no, game_id, bukovel, players, vote_yes_no, nominations,
    confirmations, pending_candidate, executioner_immunity>>
vars == <<regVars, dbVars, gameVars, countdown, handlers, hist>>

\* ----------------------------------------------------------------- helpers
Range(s) == {s[i] : i \in 1..Len(s)}
Pids == 1..Len(players)

\* dataclass PlayerState
PlayerState(uid, isBot) ==
  [user_id |-> uid, is_bot |-> isBot, role |-> "civil", alive |-> TRUE,
   self_heal_used |-> FALSE, potato_ready |-> FALSE, potato_used |-> FALSE,
   night_action |-> None]

\* GameState.alive_players (keys, in roster order)
alive_players(pl) == {i \in 1..Len(pl) : pl[i].alive}
\* GameState.mafia_side
mafia_side(pl) == {i \in 1..Len(pl) : pl[i].alive /\ pl[i].role \in MafiaRoles}
\* GameState.civil_side
civil_side(pl) == {i \in 1..Len(pl) : pl[i].alive /\ pl[i].role \notin MafiaRoles}

\* A dict that preserves no order the engine depends on: a function on its keys
EmptyDict == [x \in {} |-> None]
Put(d, k, v) == [x \in DOMAIN d \cup {k} |-> IF x = k THEN v ELSE d[x]]

\* next(pid for pid, p in alive_players().items() if cond): the first in roster order
FirstOf(S) == IF S = {} THEN None ELSE CHOOSE i \in S : \A j \in S : i <= j

\* ---------------------------------------------------------------- Store
\* db.load_active_game: the newest game of the key that has not ended, or None
ActiveGameOf(k) ==
  LET S == {g \in 1..Len(db_games) : db_games[g].chat = k /\ ~db_games[g].ended}
  IN IF S = {} THEN None ELSE CHOOSE g \in S : \A h \in S : h <= g

\* the game_players rows of a game, in insertion order
RECURSIVE RowsOf(_, _)
RowsOf(rows, g) ==
  IF rows = <<>> THEN <<>>
  ELSE IF rows[1].game_id = g THEN <<rows[1]>> \o RowsOf(Tail(rows), g)
       ELSE RowsOf(Tail(rows), g)

\* ensure_game, the loaded branch: PlayerState per stored row
LoadedPlayers(rows, buk) ==
  [i \in 1..Len(rows) |->
     [PlayerState(rows[i].user_id, rows[i].is_bot) EXCEPT
        !.role = rows[i].role,
        !.alive = rows[i].is_alive,
        !.potato_ready = buk /\ rows[i].role = "civil"]]

\* The values the detailed variables hold while Chat has no GameState object.
AbsentGame ==
  /\ phase = "absent" /\ round_no = 0 /\ game_id = 0 /\ bukovel = FALSE
  /\ players = <<>> /\ vote_yes_no = EmptyDict /\ nominations = <<>>
  /\ confirmations = EmptyDict /\ pending_candidate = None
  /\ executioner_immunity = TRUE

\* The second chat's GameState: its phase ("absent": no object yet), whether
\* it stands before Chat's in GameManager.games (a dict, iterated in the
\* order of insertion), its roster and its nomination and confirmation
\* tallies.
NoOther ==
  [phase |-> "absent", before |-> FALSE, players |-> <<>>, nominations |-> <<>>,
   confirmations |-> EmptyDict, pending_candidate |-> None]

\* The countdown task: where it stands (pc), whether it is suspended at an
\* await (other coroutines run only then), the locals of the call it is in
\* (kills, saved of resolve_night; win, the branch check_win took; ret, the
\* caller check_win returns to), and what it was armed for.
NoArm == [game |-> 0, round |-> 0, phase |-> ""]
NoTask ==
  [pc |-> "none", await |-> TRUE, kills |-> <<>>, saved |-> <<>>, win |-> "",
   ret |-> "", armed |-> NoArm]
\* asyncio.create_task(self._run_countdown(...)) while the session shows phase ph
ArmedTask(ph) ==
  [NoTask EXCEPT !.pc = "sleep",
                 !.armed = [game |-> game_id, round |-> round_no, phase |-> ph]]
\* the task is inside resolve_night, before the deaths are applied
InResolution ==
  countdown.pc \in {"rn_dep", "rn_con", "rn_pet", "rn_doc", "rn_pot", "rn_kill"}
\* the task ended: it returned, raised, or was cancelled at an await
EndedTask(t, how) == [NoTask EXCEPT !.pc = how, !.armed = t.armed]

NoTasks ==
  /\ countdown = NoTask
  /\ handlers = EmptyDict

\* History kept beside the program state: track (whether this run records
\* it), night0 (the roster when the running night resolution began), threw
\* (a potato throw hit in it), cw0 (the head-counts check_win last read and
\* the phase it found), stale (a countdown expired in a game, round or
\* phase other than the one it was armed for, and dispatched on it).
\* acted: the humans whose night keyboard of this night has been used.
\* nights: how often start_night has run.  starts: how often start_game has
\* accepted a request.
\* watch (whether this run records calls made out of their phase) and
\* refused (such a call was made).  poll: the yes and no counts finish_vote
\* read.  early: the nominators whose entry in the tally was made while the
\* yes/no poll was running.  verdict: the branch finish_confirmation took.
\* fresh: the participants whose pending night action was recorded since
\* start_night last ran.  rolled: the participants whose potato was rolled
\* in a night that has been resolved.  reply: what the last lobby command
\* (join, add-bot, start) answered.  The last three are kept by the runs
\* that track or watch.  swapped: the petrushkas for whom a night
\* resolution has replaced a role.  failed: a Notifier call of the countdown
\* task has raised.  over: the ids of the games whose session reached the
\* phase ended.
HistInit ==
  [track |-> FALSE, night0 |-> <<>>, threw |-> FALSE, late |-> FALSE,
   cw0 |-> <<>>, stale |-> FALSE, acted |-> {}, heal0 |-> <<>>,
   nights |-> 0, starts |-> 0, watch |-> FALSE, refused |-> FALSE,
   poll |-> <<>>, early |-> {}, verdict |-> "", fresh |-> {}, rolled |-> {},
   reply |-> <<>>, swapped |-> {}, failed |-> FALSE, over |-> {}]

\* --------------------------------------------------------- SessionRegistry
\* (mutant) ensure_game without the mutual exclusion
LockFree_Unguarded == TRUE
\* `async with self.lock`: the lock can be taken
LockFree == lock = None

\* ensure_game under the lock, up to its first suspension: a registered key
\* is returned at once; otherwise db.load_active_game is awaited, lock held.
EnsureLocked(c, k) ==
  IF games[k] # None
  THEN /\ callers' = [callers EXCEPT ![c] = [pc |-> "done", key |-> k, result |-> games[k]]]
       /\ UNCHANGED <<lock, loads>>
  ELSE /\ callers' = [callers EXCEPT ![c] = [pc |-> "load", key |-> k, result |-> None]]
       /\ lock' = c
       /\ loads' = [loads EXCEPT ![k] = @ + 1]

\* ensure_game(chat_id) is called: it runs on when the lock is free, else waits
EnsureCall(c, k) ==
  /\ callers[c].pc = "idle"
  /\ IF LockFree
     THEN EnsureLocked(c, k)
     ELSE /\ callers' = [callers EXCEPT ![c] = [pc |-> "wait", key |-> k, result |-> None]]
          /\ UNCHANGED <<lock, loads>>
  /\ UNCHANGED <<games, nextInst, other, dbVars, gameVars, countdown, handlers, hist>>

\* a waiting ensure_game gets the lock
EnsureAcquire(c) ==
  /\ callers[c].pc = "wait"
  /\ LockFree
  /\ EnsureLocked(c, callers[c].key)
  /\ UNCHANGED <<games, nextInst, other, dbVars, gameVars, countdown, handlers, hist>>

\* db.load_active_game returned: the GameState is built (rehydrated as day,
\* round 1, or a fresh lobby), registered, and the lock released
EnsureLoaded(c) ==
  /\ callers[c].pc = "load"
  /\ LET k == callers[c].key
         g == ActiveGameOf(k)
     IN /\ nextInst' = nextInst + 1
        /\ games' = [games EXCEPT ![k] = nextInst + 1]
        /\ callers' = [callers EXCEPT ![c].pc = "done", ![c].result = nextInst + 1]
        /\ lock' = IF lock = c THEN None ELSE lock
        /\ IF k = Chat
           THEN /\ phase' = IF g # None THEN "day" ELSE "lobby"
                /\ round_no' = IF g # None THEN 1 ELSE 0
                /\ game_id' = g
                /\ bukovel' = IF g # None THEN db_games[g].bukovel ELSE FALSE
                /\ players' = IF g # None
                              THEN LoadedPlayers(RowsOf(db_rows, g), db_games[g].bukovel)
                              ELSE <<>>
                /\ vote_yes_no' = EmptyDict /\ nominations' = <<>>
                /\ confirmations' = EmptyDict
                /\ pending_candidate' = None
                /\ executioner_immunity' = TRUE
                /\ countdown' = NoTask
                /\ UNCHANGED other
           ELSE /\ other' = [NoOther EXCEPT
                               !.phase = IF g # None THEN "day" ELSE "lobby",
                               !.before = games[Chat] = None,
                               !.players = IF g # None
                                           THEN LoadedPlayers(RowsOf(db_rows, g),
                                                              db_games[g].bukovel)
                                           ELSE <<>>]
                /\ UNCHANGED <<gameVars, countdown>>
  /\ UNCHANGED <<loads, dbVars, handlers, hist>>

\* A stored five-player game, as assign_roles persists it.
StoredRow(g, pid, uid, role, isAlive) ==
  [game_id |-> g, name |-> pid, user_id |-> uid, is_bot |-> (uid = None),
   role |-> role, is_alive |-> isAlive]
StoredRows(g) ==
  <<StoredRow(g, 1, 1, "detective", TRUE), StoredRow(g, 2, 2, "don", TRUE),
    StoredRow(g, 3, None, "doctor", FALSE), StoredRow(g, 4, None, "executioner", TRUE),
    StoredRow(g, 5, None, "petrushka", TRUE)>>
StoredGame(k, isEnded) ==
  [chat |-> k, ended |-> isEnded, winner |-> IF isEnded THEN "civil" ELSE "",
   bukovel |-> FALSE]

\* The registry after process start: no session in memory; the Store holds,
\* per key, no game, an unfinished game or a finished one.
RegInit ==
  /\ games = [k \in Keys |-> None]
  /\ lock = None
  /\ callers = [c \in Callers |-> [pc |-> "idle", key |-> None, result |-> None]]
  /\ loads = [k \in Keys |-> 0]
  /\ nextInst = 0
  /\ other = NoOther
  /\ \E k \in Keys \cup {None}, isEnded \in BOOLEAN :
        IF k = None
        THEN db_games = <<>> /\ db_rows = <<>>
        ELSE db_games = <<StoredGame(k, isEnded)>> /\ db_rows = StoredRows(1)
  /\ AbsentGame
  /\ NoTasks
  /\ hist = HistInit

RegNext ==
  \/ \E c \in Callers, k \in Keys : EnsureCall(c, k)
  \/ \E c \in Callers : EnsureAcquire(c)
  \/ \E c \in Callers : EnsureLoaded(c)

SpecRegistry == RegInit /\ [][RegNext]_vars

\* C7: concurrent getOrCreate calls with one key all return the instance the
\* registry holds for it, one instance per key is ever built, and the Store is
\* asked to rehydrate a key at most once.
C7_OneSessionPerKey ==
  /\ \A c \in Callers :
        callers[c].pc = "done" => callers[c].result = games[callers[c].key]
  /\ \A c, d \in Callers :
        (callers[c].pc = "done" /\ callers[d].pc = "done"
           /\ callers[c].key = callers[d].key) => callers[c].result = callers[d].result
  /\ \A k \in Keys : loads[k] <= 1
  /\ nextInst = Cardinality({k \in Keys : games[k] # None})

\* three callers raced on one key (two had to wait for the lock) and are served
C7_Witness ==
  /\ \A c \in Callers : callers[c].pc = "done" /\ callers[c].key = Chat
  /\ loads[Chat] = 1
  /\ phase = "day"

\* ------------------------------------------------------------ NightResolver
\* the keys of a dict restricted to S, in roster (insertion) order
RECURSIVE InOrder(_)
InOrder(S) ==
  IF S = {} THEN <<>>
  ELSE LET m == CHOOSE i \in S : \A j \in S : i <= j
       IN <<m>> \o InOrder(S \ {m})

\* the first living participant of a role whose night_action is set
Acting(pl, role) ==
  FirstOf({i \in alive_players(pl) : pl[i].role = role /\ pl[i].night_action # None})

\* (mutant) every acting don and mafia member attacks
MafiaKills_All(pl) ==
  [k \in 1..Len(InOrder({i \in alive_players(pl) :
                          pl[i].role \in {"don", "mafia"} /\ pl[i].night_action # None})) |->
     pl[InOrder({i \in alive_players(pl) :
                  pl[i].role \in {"don", "mafia"} /\ pl[i].night_action # None})[k]].night_action]
\* resolve_night: acting_killer = don_pid or mafia_pid; kills gets its target
MafiaKills(pl) ==
  LET don_pid == Acting(pl, "don")
      mafia_pid == Acting(pl, "mafia")
      acting_killer == IF don_pid # None THEN don_pid ELSE mafia_pid
  IN IF acting_killer # None THEN <<pl[acting_killer].night_action>> ELSE <<>>

\* (mutant) the saved list is not consulted
RECURSIVE FinalKills_NoSave(_, _, _)
FinalKills_NoSave(kills, saved, acc) ==
  IF kills = <<>> THEN acc
  ELSE LET victim == kills[1]
       IN IF victim = None \/ victim \in Range(acc)
          THEN FinalKills_NoSave(Tail(kills), saved, acc)
          ELSE FinalKills_NoSave(Tail(kills), saved, Append(acc, victim))

\* resolve_night: final_kills, the kills not saved, without repeats, in order
RECURSIVE FinalKills(_, _, _)
FinalKills(kills, saved, acc) ==
  IF kills = <<>> THEN acc
  ELSE LET victim == kills[1]
       IN IF victim = None \/ victim \in Range(saved) \/ victim \in Range(acc)
          THEN FinalKills(Tail(kills), saved, acc)
          ELSE FinalKills(Tail(kills), saved, Append(acc, victim))

\* db.update_game_player_status(game_id, name, False)
MarkDead(rows, g, names) ==
  [i \in 1..Len(rows) |->
     IF rows[i].game_id = g /\ rows[i].name \in names
     THEN [rows[i] EXCEPT !.is_alive = FALSE] ELSE rows[i]]

\* No coroutine is in the middle of a segment: the event loop picks the next.
Quiet == countdown.await

\* the countdown's dispatch is recorded: was it armed for what it finds?
Dispatched(h) ==
  [h EXCEPT !.stale = @ \/ countdown.armed # [game |-> game_id, round |-> round_no,
                                               phase |-> phase]]

Snapshot == IF hist.track
            THEN [Dispatched(hist) EXCEPT !.night0 = players, !.threw = FALSE,
                                          !.late = FALSE]
            ELSE Dispatched(hist)

\* resolve_night, lines 311-331: the mafia attack and the detective's check
\* (the task suspends on the detective's message; a target outside the
\* roster raises KeyError and ends the task)
RnBegin ==
  LET det == FirstOf({i \in alive_players(players) : players[i].role = "detective"})
      acts == det # None /\ players[det].night_action # None
  IN /\ countdown' =
          IF acts /\ players[det].night_action \notin Pids
          THEN EndedTask(countdown, "crashed")
          ELSE [countdown EXCEPT !.pc = "rn_dep", !.await = acts,
                                 !.kills = MafiaKills(players), !.saved = <<>>]
     /\ hist' = Snapshot
     /\ UNCHANGED <<regVars, dbVars, gameVars, handlers>>

\* resolve_night, lines 333-339: the deputy's check
RnDeputy ==
  /\ countdown.pc = "rn_dep"
  /\ LET dep == Acting(players, "deputy")
     IN countdown' =
          IF dep # None /\ players[dep].night_action \notin Pids
          THEN EndedTask(countdown, "crashed")
          ELSE [countdown EXCEPT !.pc = "rn_con", !.await = (dep # None)]
  /\ UNCHANGED <<regVars, dbVars, gameVars, handlers, hist>>

\* resolve_night, lines 341-349: the consigliere's check, sent to the mafia
RnConsigliere ==
  /\ countdown.pc = "rn_con"
  /\ LET con == Acting(players, "consigliere")
     IN countdown' =
          IF con # None /\ players[con].night_action \notin Pids
          THEN EndedTask(countdown, "crashed")
          ELSE [countdown EXCEPT
                  !.pc = "rn_pet",
                  !.await = con # None
                            /\ \E i \in Pids : players[i].role \in MafiaRoles
                                               /\ players[i].user_id # None]
  /\ UNCHANGED <<regVars, dbVars, gameVars, handlers, hist>>

\* resolve_night, lines 351-360: petrushka replaces a living target's role
RnPetrushka ==
  /\ countdown.pc = "rn_pet"
  /\ LET pet == Acting(players, "petrushka")
         hit == pet # None /\ players[pet].night_action \in Pids
                /\ players[players[pet].night_action].alive
     IN /\ IF hit
           THEN \E r \in Roles \ {"detective"} :
                  players' = [players EXCEPT ![players[pet].night_action].role = r]
           ELSE UNCHANGED players
        /\ countdown' = [countdown EXCEPT !.pc = "rn_doc", !.await = hit]
        /\ hist' = IF hist.track /\ hit THEN [hist EXCEPT !.swapped = @ \cup {pet}]
                   ELSE hist
  /\ UNCHANGED <<regVars, dbVars, phase, round_no, game_id, bukovel, vote_yes_no,
                 nominations, confirmations, pending_candidate,
                 executioner_immunity, handlers>>

\* resolve_night, lines 362-368: the doctor's heal
RnDoctor ==
  /\ countdown.pc = "rn_doc"
  /\ LET doc_pid == Acting(players, "doctor")
     IN IF doc_pid # None
        THEN /\ countdown' = [countdown EXCEPT
                                !.pc = "rn_pot", !.await = TRUE,
                                !.saved = <<players[doc_pid].night_action>>]
             /\ players' = IF players[doc_pid].night_action = doc_pid
                           THEN [players EXCEPT ![doc_pid].self_heal_used = TRUE]
                           ELSE players
        ELSE /\ countdown' = [countdown EXCEPT !.pc = "rn_pot", !.await = FALSE]
             /\ UNCHANGED players
  /\ hist' = IF hist.track THEN [hist EXCEPT !.heal0 = players] ELSE hist
  /\ UNCHANGED <<regVars, dbVars, phase, round_no, game_id, bukovel, vote_yes_no,
                 nominations, confirmations, pending_candidate,
                 executioner_immunity, handlers>>

\* resolve_night, lines 370-374: every used potato is thrown with chance 1/2
\* (hits: the throwers whose roll succeeded); a hit on an id outside the
\* roster raises KeyError in label()
RnPotato ==
  /\ countdown.pc = "rn_pot"
  /\ LET throwers == {i \in alive_players(players) :
                        players[i].potato_used /\ players[i].night_action # None}
     IN \E hits \in SUBSET throwers :
          /\ countdown' =
               IF \E i \in hits : players[i].night_action \notin Pids
               THEN EndedTask(countdown, "crashed")
               ELSE [countdown EXCEPT
                       !.pc = "rn_kill", !.await = (hits # {}),
                       !.kills = @ \o [k \in 1..Cardinality(hits) |->
                                         players[InOrder(hits)[k]].night_action]]
          /\ hist' = IF hist.track
                     THEN [hist EXCEPT !.threw = @ \/ hits # {},
                                       !.rolled = @ \cup throwers]
                     ELSE hist
  /\ UNCHANGED <<regVars, dbVars, gameVars, handlers>>

\* resolve_night, lines 376-396: the deaths are applied and persisted, then
\* the morning report is sent
RnKill ==
  /\ countdown.pc = "rn_kill"
  /\ LET final_kills == FinalKills(countdown.kills, countdown.saved, <<>>)
         dead == {v \in Range(final_kills) : v \in Pids /\ players[v].alive}
     IN /\ players' = [i \in Pids |->
                         IF i \in dead THEN [players[i] EXCEPT !.alive = FALSE]
                         ELSE players[i]]
        /\ db_rows' = MarkDead(db_rows, game_id, dead)
  /\ countdown' = [countdown EXCEPT !.pc = "rn_rep", !.await = TRUE]
  /\ UNCHANGED <<regVars, db_games, phase, round_no, game_id, bukovel, vote_yes_no,
                 nominations, confirmations, pending_candidate,
                 executioner_immunity, handlers, hist>>

\* ------------------------------------------------------------- WinEvaluator
\* (mutant) the mafia wins only by strict majority
Winner_Strict(pl) ==
  LET mafia_alive == Cardinality(mafia_side(pl))
      civil_alive == Cardinality(civil_side(pl))
  IN IF mafia_alive = 0 THEN "civil"
     ELSE IF mafia_alive > civil_alive THEN "mafia"
     ELSE ""
\* check_win, lines 555-562: the side that has won, if any
Winner(pl) ==
  LET mafia_alive == Cardinality(mafia_side(pl))
      civil_alive == Cardinality(civil_side(pl))
  IN IF mafia_alive = 0 THEN "civil"
     ELSE IF mafia_alive >= civil_alive THEN "mafia"
     ELSE ""

\* ---------------------------------------------------------- phase changes
tallyVars == <<vote_yes_no, nominations, confirmations, pending_candidate>>

\* start_night, lines 206-213 (it then awaits the night animation)
StartNightBody ==
  /\ hist.nights < MaxNights
  /\ hist' = [hist EXCEPT !.nights = @ + 1, !.early = {}, !.verdict = "",
                           !.fresh = {}]
  /\ phase' = "night"
  /\ round_no' = round_no + 1
  /\ vote_yes_no' = EmptyDict
  /\ nominations' = <<>>
  /\ confirmations' = EmptyDict
  /\ pending_candidate' = None

\* (mutant) start_night leaves the pending actions of the last night
ClearActions_Keep(pl) == pl
\* (mutant) start_night builds every participant anew
ClearActions_Reset(pl) ==
  [i \in 1..Len(pl) |->
     [PlayerState(pl[i].user_id, pl[i].is_bot) EXCEPT !.role = pl[i].role]]
\* start_night, lines 212-213
ClearActions(pl) == [i \in 1..Len(pl) |-> [pl[i] EXCEPT !.night_action = None]]

\* _request_night_actions, line 249-251
Actionable(p) ==
  \/ p.role \in {"don", "mafia", "doctor", "detective", "deputy", "consigliere",
                 "petrushka"}
  \/ p.potato_ready /\ ~p.potato_used

\* _auto_action: the roles (and the unused potato) a bot picks a target for
AutoActs(p) ==
  \/ p.role \in {"don", "mafia", "doctor", "deputy", "consigliere", "petrushka"}
  \/ p.potato_ready /\ ~p.potato_used

\* what random.choice(alive) may return
Choices(S) == {i \in S : Cardinality({j \in S : j < i}) < RandWidth}

\* one random.choice([i for i in alive if i != pid]) for each of the bots
RECURSIVE BotPicks(_, _)
BotPicks(bots, alive) ==
  IF bots = {} THEN {EmptyDict}
  ELSE LET b == CHOOSE i \in bots : \A j \in bots : j <= i
       IN {Put(f, b, t) : f \in BotPicks(bots \ {b}, alive), t \in Choices(alive \ {b})}

\* _request_night_actions: the living bots get their _auto_action in roster
\* order.  In a task that has been cancelled (the countdown task after it
\* re-armed the timer) the first message to a human raises CancelledError,
\* so only the bots before the first actionable human are served.
Served(pl, cancelled) ==
  LET alive == alive_players(pl)
      humans == {i \in alive : ~pl[i].is_bot /\ Actionable(pl[i])}
      stop == IF cancelled /\ humans # {} THEN FirstOf(humans) ELSE Len(pl) + 1
  IN {i \in alive : pl[i].is_bot /\ i < stop /\ AutoActs(pl[i]) /\ alive \ {i} # {}}

RequestNightActions(pl, cancelled) ==
  LET alive == alive_players(pl)
      bots == Served(pl, cancelled)
  IN {[i \in 1..Len(pl) |->
         IF i \in bots THEN [pl[i] EXCEPT !.night_action = f[i]] ELSE pl[i]] :
        f \in BotPicks(bots, alive)}

\* the pending actions of the participants S were recorded just now
Filled(h, S) == IF h.track THEN [h EXCEPT !.fresh = @ \cup S] ELSE h

\* check_win (lines 554-566) as called by the countdown task after the
\* morning report (resolve_night) or after an execution (finish_confirmation).
\* With a winner the task suspends on the animation; without one check_win
\* returns at once to its caller.
CheckWin ==
  /\ countdown.pc \in {"rn_rep", "fc_rep"}
  /\ hist' = IF hist.track
             THEN [hist EXCEPT !.cw0 = <<Cardinality(mafia_side(players)),
                                         Cardinality(civil_side(players)), phase>>]
             ELSE hist
  /\ countdown' =
       IF Winner(players) # ""
       THEN [countdown EXCEPT !.pc = "cw_db", !.await = TRUE,
                              !.win = Winner(players), !.ret = countdown.pc]
       ELSE [countdown EXCEPT !.pc = "cw_ret", !.await = FALSE, !.win = "",
                              !.ret = countdown.pc]
  /\ UNCHANGED <<regVars, dbVars, gameVars, handlers>>

\* check_win, line 559/564: db.end_game stores the result
CheckWinPersist ==
  /\ countdown.pc = "cw_db"
  /\ db_games' = [g \in 1..Len(db_games) |->
                    IF g = game_id
                    THEN [db_games[g] EXCEPT !.ended = TRUE, !.winner = countdown.win]
                    ELSE db_games[g]]
  /\ countdown' = [countdown EXCEPT !.pc = "cw_end"]
  /\ UNCHANGED <<regVars, db_rows, gameVars, handlers, hist>>

\* the game of the session has reached the phase ended
Over(h) == IF h.track THEN [h EXCEPT !.over = @ \cup {game_id}] ELSE h

\* check_win, line 561/566: the phase becomes ended
CheckWinEnd ==
  /\ countdown.pc = "cw_end"
  /\ phase' = "ended"
  /\ countdown' = [countdown EXCEPT !.pc = "cw_ret", !.await = FALSE]
  /\ hist' = Over(hist)
  /\ UNCHANGED <<regVars, dbVars, round_no, game_id, bukovel, players, tallyVars,
                 executioner_immunity, handlers>>

\* resolve_night, lines 398-399, with start_day and _schedule_timer (401-403,
\* 218-221): unless the game has ended the day begins and its countdown is
\* armed; the running task, cancelled by _schedule_timer, returns
ResolveNightEnd ==
  /\ countdown.pc = "cw_ret" /\ countdown.ret = "rn_rep"
  /\ IF phase = "ended"
     THEN /\ countdown' = EndedTask(countdown, "done")
          /\ UNCHANGED phase
     ELSE /\ phase' = "day"
          /\ countdown' = ArmedTask("day")
  /\ UNCHANGED <<regVars, dbVars, round_no, game_id, bukovel, players, tallyVars,
                 executioner_immunity, handlers, hist>>

\* finish_confirmation, lines 551-552, with start_night up to its animation
FinishConfirmationEnd ==
  /\ countdown.pc = "cw_ret" /\ countdown.ret = "fc_rep"
  /\ IF phase = "ended"
     THEN /\ countdown' = EndedTask(countdown, "done")
          /\ UNCHANGED <<phase, round_no, players, tallyVars, hist>>
     ELSE /\ StartNightBody
          /\ players' = ClearActions(players)
          /\ countdown' = [countdown EXCEPT !.pc = "sn_arm", !.await = TRUE]
  /\ UNCHANGED <<regVars, dbVars, game_id, bukovel, executioner_immunity,
                 handlers>>

\* start_night, lines 215-216, in the countdown task: _schedule_timer cancels
\* the running task and arms the night countdown, then the actions are
\* requested until the cancellation is delivered
StartNightArm ==
  /\ countdown.pc = "sn_arm"
  /\ players' \in RequestNightActions(players, TRUE)
  /\ countdown' = ArmedTask("night")
  /\ hist' = Filled(hist, Served(players, TRUE))
  /\ UNCHANGED <<regVars, dbVars, phase, round_no, game_id, bukovel, tallyVars,
                 executioner_immunity, handlers>>

\* ----------------------------------------------------------------------
\* Win evaluation on its own: the countdown task stands before check_win,
\* after the morning report of a night or after an execution, with any
\* roster of WinN participants over WinRoles.
WinN == 5
WinRoles == {"don", "mafia", "consigliere", "doctor", "civil"}

WinInit ==
  /\ games = [k \in Keys |-> IF k = Chat THEN 1 ELSE None]
  /\ lock = None
  /\ callers = [c \in Callers |-> [pc |-> "idle", key |-> None, result |-> None]]
  /\ loads = [k \in Keys |-> 0]
  /\ nextInst = 1
  /\ other = NoOther
  /\ db_games = <<StoredGame(Chat, FALSE)>>
  /\ \E ph \in {"night", "vote"} :
       /\ phase = ph
       /\ countdown = [NoTask EXCEPT !.pc = IF ph = "night" THEN "rn_rep" ELSE "fc_rep",
                                     !.armed = [game |-> 1, round |-> 1, phase |-> ph]]
  /\ round_no = 1 /\ game_id = 1 /\ bukovel = FALSE
  /\ \E rs \in [1..WinN -> WinRoles], al \in [1..WinN -> BOOLEAN] :
       /\ players = [i \in 1..WinN |->
                       [PlayerState(IF i = 2 THEN 1 ELSE None, i # 2) EXCEPT
                          !.role = rs[i], !.alive = al[i]]]
       /\ db_rows = [i \in 1..WinN |->
                       StoredRow(1, i, IF i = 2 THEN 1 ELSE None, rs[i], al[i])]
  /\ vote_yes_no = EmptyDict /\ nominations = <<>> /\ confirmations = EmptyDict
  /\ pending_candidate = None
  /\ executioner_immunity = TRUE
  /\ handlers = EmptyDict
  /\ hist = [HistInit EXCEPT !.track = TRUE]

WinNext ==
  \/ CheckWin
  \/ CheckWinPersist
  \/ CheckWinEnd
  \/ ResolveNightEnd
  \/ FinishConfirmationEnd
  \/ StartNightArm

SpecWin == WinInit /\ [][WinNext]_vars

\* C8: when check_win has returned, with m living mafia-aligned and c living
\* town-aligned participants counted: m = 0 gives phase ended and the result
\* "civil" persisted; otherwise m >= c gives phase ended and "mafia"
\* persisted; otherwise the phase is the one check_win found and the game
\* has no persisted result.
C8_WinEvaluation ==
  (countdown.pc = "cw_ret") =>
     LET m == hist.cw0[1]
         c == hist.cw0[2]
     IN IF m = 0
        THEN phase = "ended" /\ db_games[game_id].ended
             /\ db_games[game_id].winner = "civil"
        ELSE IF m >= c
        THEN phase = "ended" /\ db_games[game_id].ended
             /\ db_games[game_id].winner = "mafia"
        ELSE phase = hist.cw0[3] /\ phase # "ended" /\ ~db_games[game_id].ended

\* check_win returned with the mafia at parity with the town: the mafia won
C8_Witness ==
  /\ countdown.pc = "cw_ret"
  /\ hist.cw0[1] = 2 /\ hist.cw0[2] = 2
  /\ phase = "ended"
  /\ db_games[game_id].winner = "mafia"

\* --------------------------------------------------------------- ActionLedger
\* build_night_action_keyboard as _request_night_actions calls it (lines
\* 254-255): the role context and the targets of the buttons a living human
\* holds for this night
RoleContext(p) == IF p.potato_ready /\ ~p.potato_used THEN "potato" ELSE p.role
Buttons(pid) ==
  LET S == alive_players(players) \ {pid}
  IN {i \in S : Cardinality({j \in S : j < i}) < ButtonWidth}

\* a run that watches for them records a call made outside the phase it is for
OutOfPhase(h, ph) == [h EXCEPT !.refused = @ \/ (h.watch /\ phase # ph)]

\* (mutant) handle_action without the phase check
ActionOpen_Always(ph) == TRUE
\* handle_action, line 296: state.phase != "night" answers "not now"
ActionOpen(ph) == ph = "night"

\* vote_callback, line 421: state.phase != "vote" returns
PollOpen(ph) == ph = "vote"

\* what a command or a button press was answered (the reason of a refusal,
\* "" for none), as the runs that watch record it
Replied(h, op, u, err) == IF h.watch THEN [h EXCEPT !.reply = <<op, u, err>>] ELSE h

\* the first living participant of a roster with the user id u
LivingAs(pl, u) == FirstOf({i \in alive_players(pl) : pl[i].user_id = u})

\* `for state in self.games.values()`: the loop reaches the second chat's
\* session and stops there (hitOther), Chat's standing behind it or not
\* stopping the loop (hitChat)
StopsAtOther(hitChat, hitOther) == hitOther /\ (other.before \/ ~hitChat)

\* handle_action (lines 284-308) for the callback "act:<role>:<target>" of user
\* u: the first living participant with that user id, in the first session
\* that has one, is looked up; if that session is not in night nothing is
\* recorded; in night the target overwrites night_action and a potato
\* context marks the potato used
HandleAction(u, role, target) ==
  /\ Quiet
  /\ LET pid == LivingAs(players, u)
         opid == LivingAs(other.players, u)
     IN IF StopsAtOther(pid # None, opid # None)
        THEN /\ other' = IF ActionOpen(other.phase)
                         THEN [other EXCEPT
                                 !.players[opid].night_action = target,
                                 !.players[opid].potato_used =
                                    IF role = "potato" THEN TRUE ELSE @]
                         ELSE other
             /\ UNCHANGED players
             /\ hist' = Replied(hist, "act", u,
                                IF ActionOpen(other.phase) THEN "" ELSE "not_now")
        ELSE IF pid = None \/ ~ActionOpen(phase)
        THEN /\ UNCHANGED <<players, other>>
             /\ hist' = Replied(OutOfPhase(hist, "night"), "act", u,
                                IF pid = None THEN "not_found" ELSE "not_now")
        ELSE /\ players' = [players EXCEPT
                              ![pid].night_action = target,
                              ![pid].potato_used = IF role = "potato" THEN TRUE ELSE @]
             /\ UNCHANGED other
             /\ hist' = [Replied(Filled(OutOfPhase(hist, "night"), {pid}), "act", u, "")
                           EXCEPT !.acted = @ \cup {u},
                                  !.late = @ \/ (hist.track /\ InResolution)]
  /\ UNCHANGED <<mgrVars, dbVars, phase, round_no, game_id, bukovel, tallyVars,
                 executioner_immunity, countdown, handlers>>

\* a living human presses a button of the night keyboard it was sent
PressNightButton ==
  \E pid \in alive_players(players) :
    /\ ~players[pid].is_bot
    /\ Actionable(players[pid])
    /\ players[pid].user_id \in 1..NumActors
    /\ players[pid].user_id \notin hist.acted
    /\ \E target \in Buttons(pid) :
         HandleAction(players[pid].user_id, RoleContext(players[pid]), target)

\* a living human presses, in the night, a button of a night keyboard that
\* an earlier night or game left unused: it lists the ids of that roster in
\* order (the presser's pid of today may be among them), for the role the
\* human had then or for the potato
PressOldNightButton ==
  /\ phase = "night"
  /\ \E pid \in alive_players(players) :
       /\ ~players[pid].is_bot /\ players[pid].user_id \in 1..NumUsers
       /\ \E target \in 1..ButtonWidth, role \in {"doctor", "potato"} :
            HandleAction(players[pid].user_id, role, target)

\* _run_countdown, lines 236-237: the countdown ran out in night
ExpireNight ==
  /\ countdown.pc = "sleep"
  /\ Quiet
  /\ phase = "night"
  /\ RnBegin

\* ----------------------------------------------------------------------
\* One night on its own: the first night of a game, as start_game leaves it
\* (roles assigned, every actionable human holding its keyboard, countdown
\* armed), for a roster of five and a roster of ten humans in a potato game.
NightRosters ==
  {<<"doctor", "don", "petrushka", "consigliere", "detective">>,
   <<"doctor", "don", "mafia", "petrushka", "civil", "detective", "executioner",
     "deputy", "consigliere", "mayor">>}

Assigned(roles, buk) ==
  [i \in 1..Len(roles) |->
     [PlayerState(i, FALSE) EXCEPT !.role = roles[i],
                                   !.potato_ready = buk /\ roles[i] = "civil"]]

InGameInit(pl, buk, ph, round) ==
  /\ games = [k \in Keys |-> IF k = Chat THEN 1 ELSE None]
  /\ lock = None
  /\ callers = [c \in Callers |-> [pc |-> "idle", key |-> None, result |-> None]]
  /\ loads = [k \in Keys |-> 0]
  /\ nextInst = 1
  /\ other = NoOther
  /\ db_games = <<[StoredGame(Chat, FALSE) EXCEPT !.bukovel = buk]>>
  /\ db_rows = IF ph = "lobby" THEN <<>>
               ELSE [i \in 1..Len(pl) |->
                       StoredRow(1, i, pl[i].user_id, pl[i].role, pl[i].alive)]
  /\ phase = ph /\ round_no = round /\ game_id = 1 /\ bukovel = buk
  /\ players = pl
  /\ vote_yes_no = EmptyDict /\ nominations = <<>> /\ confirmations = EmptyDict
  /\ pending_candidate = None
  /\ executioner_immunity = TRUE
  /\ countdown = IF ph = "lobby" THEN NoTask
                 ELSE [NoTask EXCEPT !.pc = "sleep",
                                     !.armed = [game |-> 1, round |-> round, phase |-> ph]]

NightInit ==
  /\ \E roles \in NightRosters : InGameInit(Assigned(roles, TRUE), TRUE, "night", 1)
  /\ handlers = EmptyDict
  /\ hist = [HistInit EXCEPT !.track = TRUE, !.nights = 1]

NightNext ==
  \/ PressNightButton
  \/ ExpireNight
  \/ RnDeputy
  \/ RnConsigliere
  \/ RnPetrushka
  \/ RnDoctor
  \/ RnPotato
  \/ RnKill
  \/ CheckWin
  \/ CheckWinPersist
  \/ CheckWinEnd
  \/ ResolveNightEnd

SpecNight == NightInit /\ [][NightNext]_vars

\* what the night's ledger held when the countdown expired
Submitted(role) ==
  {i \in alive_players(hist.night0) :
     hist.night0[i].role = role /\ hist.night0[i].night_action # None}

\* who died in the resolution of this night
Died == {i \in Pids : hist.night0[i].alive /\ ~players[i].alive}

Resolved == countdown.pc = "rn_rep"

\* C9: the resolution holds at most one mafia attack; it is the target of a
\* living don who submitted, otherwise of a living mafia member who
\* submitted, otherwise there is none; and when no potato was thrown at
\* most one participant dies in the night, the one attacked.
C9_OneMafiaAttack ==
  /\ countdown.pc \in {"rn_dep", "rn_con", "rn_pet", "rn_doc", "rn_pot"} =>
       /\ Len(countdown.kills) <= 1
       /\ Submitted("don") # {} =>
            \E i \in Submitted("don") : countdown.kills = <<hist.night0[i].night_action>>
       /\ Submitted("don") = {} /\ Submitted("mafia") # {} =>
            \E i \in Submitted("mafia") : countdown.kills = <<hist.night0[i].night_action>>
       /\ Submitted("don") = {} /\ Submitted("mafia") = {} => countdown.kills = <<>>
  /\ Resolved /\ ~hist.threw =>
       /\ Cardinality(Died) <= 1
       /\ Died \subseteq Range(countdown.kills)
       /\ Len(countdown.kills) <= 1

\* don and mafia member both submitted, on different targets; no potato was
\* thrown, and the don's target alone died
C9_Witness ==
  /\ Resolved /\ ~hist.threw
  /\ \E d \in Submitted("don") : \E m \in Submitted("mafia") :
       /\ hist.night0[d].night_action # hist.night0[m].night_action
       /\ Died = {hist.night0[d].night_action}

\* C10 as stated: a participant who was the doctor when the night expired,
\* had submitted a heal target, and is alive after the resolution, keeps the
\* mafia's target alive when it is the heal target.
C10_Original ==
  Resolved =>
    \A d \in Submitted("doctor") :
      players[d].alive /\ countdown.kills # <<>>
      /\ countdown.kills[1] = hist.night0[d].night_action
      => players[hist.night0[d].night_action].alive

\* C10 (amended): when the heal step runs, after petrushka's swap, the first
\* living participant who then holds the doctor role and has a target
\* recorded keeps that target alive if the mafia attacked it; and a
\* resolution that ends without a winner is followed by the day, with the
\* day countdown armed.
C10_HealApplied ==
  /\ [](Resolved =>
          LET doc_pid == Acting(hist.heal0, "doctor")
          IN doc_pid # None /\ countdown.kills # <<>>
             /\ countdown.kills[1] = hist.heal0[doc_pid].night_action
             => /\ players[countdown.kills[1]].alive
                /\ ~hist.threw => Died = {})
  /\ [][countdown.pc = "cw_ret" /\ countdown.ret = "rn_rep" /\ countdown.win = ""
        => phase' = "day" /\ countdown'.pc = "sleep" /\ countdown'.armed.phase = "day"]_vars

\* the doctor healed the mafia's target, nobody died, and the day has begun
C10_Witness ==
  /\ phase = "day" /\ countdown.pc = "sleep"
  /\ Died = {}
  /\ LET doc_pid == Acting(hist.heal0, "doctor")
     IN /\ doc_pid # None
        /\ Submitted("don") # {}
        /\ hist.night0[FirstOf(Submitted("don"))].night_action
             = hist.heal0[doc_pid].night_action

\* C4: a night action submitted after the countdown expired has no effect on
\* the night's outcome: every heal the resolution applied was submitted
\* before the countdown expired.
C4_LateIgnored ==
  countdown.pc \in {"rn_pot", "rn_kill", "rn_rep"} =>
    \A t \in Range(countdown.saved) :
      \E d \in alive_players(hist.night0) : hist.night0[d].night_action = t

\* ------------------------------------------------------------------ Lobby
\* the handler coroutines in flight (start_new_game, start_game), by slot
Slots == DOMAIN handlers
Idle == [op |-> "none", pc |-> "idle", idx |-> 0, roles |-> <<>>, n |-> 0, buk |-> FALSE]
FreeSlot == FirstOf({h \in Slots : handlers[h].pc = "idle"})
Creating == {h \in Slots : handlers[h].pc = "create"}

\* start_new_game, lines 94-98: up to the await of db.create_game
StartNewGame(b) ==
  /\ Quiet /\ FreeSlot # None
  /\ Len(db_games) + Cardinality(Creating) < MaxGames
  /\ players' = <<>>
  /\ phase' = "lobby"
  /\ round_no' = 0
  /\ bukovel' = b
  /\ handlers' = [handlers EXCEPT ![FreeSlot] =
                    [Idle EXCEPT !.op = "start_new_game", !.pc = "create", !.buk = b]]
  /\ UNCHANGED <<regVars, dbVars, game_id, tallyVars, executioner_immunity,
                 countdown, hist>>

\* start_new_game, lines 98-104: the new game's id arrives, the tallies are
\* cleared
StartNewGameDone(h) ==
  /\ Quiet /\ handlers[h].pc = "create"
  /\ db_games' = Append(db_games, [StoredGame(Chat, FALSE) EXCEPT !.bukovel = handlers[h].buk])
  /\ game_id' = Len(db_games) + 1
  /\ vote_yes_no' = EmptyDict
  /\ nominations' = <<>>
  /\ confirmations' = EmptyDict
  /\ pending_candidate' = None
  /\ executioner_immunity' = TRUE
  /\ handlers' = [handlers EXCEPT ![h] = Idle]
  /\ UNCHANGED <<regVars, db_rows, phase, round_no, bukovel, players, countdown, hist>>

\* cancel_game
CancelGame ==
  /\ Quiet
  /\ phase' = "ended"
  /\ players' = <<>>
  /\ hist' = Over(hist)
  /\ UNCHANGED <<regVars, dbVars, round_no, game_id, bukovel, tallyVars,
                 executioner_immunity, countdown, handlers>>

\* The process is restarted: GameManager.__init__ builds an empty registry,
\* every task and handler of the old process is gone, the Store is kept.
Restart ==
  /\ loads[Chat] < MaxLoads
  /\ games' = [k \in Keys |-> None]
  /\ lock' = None
  /\ callers' = [c \in Callers |-> [pc |-> "idle", key |-> None, result |-> None]]
  /\ other' = NoOther
  /\ phase' = "absent" /\ round_no' = 0 /\ game_id' = 0 /\ bukovel' = FALSE
  /\ players' = <<>> /\ vote_yes_no' = EmptyDict /\ nominations' = <<>>
  /\ confirmations' = EmptyDict /\ pending_candidate' = None
  /\ executioner_immunity' = TRUE
  /\ countdown' = NoTask
  /\ handlers' = [h \in Slots |-> Idle]
  /\ UNCHANGED <<loads, nextInst, dbVars, hist>>

\* (mutant) add_player without the look-up of the user
AlreadyJoined_Never(pl, u) == FALSE
\* add_player, line 113
AlreadyJoined(pl, u) == \E i \in 1..Len(pl) : ~pl[i].is_bot /\ pl[i].user_id = u

\* (mutant) one bot more than the quota is let in
BotQuotaReached_Over(pl) == Cardinality({i \in 1..Len(pl) : pl[i].is_bot}) > MAX_BOTS
\* add_bot, line 125
BotQuotaReached(pl) == Cardinality({i \in 1..Len(pl) : pl[i].is_bot}) >= MAX_BOTS

\* add_player (after ensure_game returned): a request to a session that is
\* not a lobby, to a full lobby, or by a human already in it, is answered
\* with the reason and changes nothing; otherwise the human is added with
\* the pid max(keys) + 1
AddPlayer(u) ==
  /\ Quiet
  /\ LET err == IF phase # "lobby" THEN "game_running"
                ELSE IF Len(players) >= MAX_PLAYERS THEN "full"
                ELSE IF AlreadyJoined(players, u) THEN "already_joined"
                ELSE ""
     IN /\ players' = IF err = "" THEN Append(players, PlayerState(u, FALSE))
                      ELSE players
        /\ hist' = Replied(hist, "join", u, err)
  /\ UNCHANGED <<regVars, dbVars, phase, round_no, game_id, bukovel, tallyVars,
                 executioner_immunity, countdown, handlers>>

\* add_bot: refused when the session is not a lobby, or the lobby is full or
\* holds MAX_BOTS bots
AddBot ==
  /\ Quiet
  /\ LET err == IF phase # "lobby" THEN "late"
                ELSE IF Len(players) >= MAX_PLAYERS THEN "full"
                ELSE IF BotQuotaReached(players) THEN "enough_bots"
                ELSE ""
     IN /\ players' = IF err = "" THEN Append(players, PlayerState(None, TRUE))
                      ELSE players
        /\ hist' = Replied(hist, "add_bot", None, err)
  /\ UNCHANGED <<regVars, dbVars, phase, round_no, game_id, bukovel, tallyVars,
                 executioner_immunity, countdown, handlers>>

\* ------------------------------------------------------------ RoleAssigner
\* assign_roles, lines 142-155: the roles before the shuffle
RolePool(count) ==
  LET fixed == <<"don">>
               \o (IF count >= MAFIA_EXTRA_THRESHOLD THEN <<"mafia">> ELSE <<>>)
               \o <<"doctor", "detective", "executioner">>
               \o (IF ALLOW_DEPUTY THEN <<"deputy">> ELSE <<>>)
               \o (IF ALLOW_CONSILGIERE THEN <<"consigliere">> ELSE <<>>)
               \o (IF ALLOW_MAYOR THEN <<"mayor">> ELSE <<>>)
               \o (IF ALLOW_PETRUSHKA THEN <<"petrushka">> ELSE <<>>)
  IN fixed \o [i \in 1..(IF count > Len(fixed) THEN count - Len(fixed) ELSE 0) |-> "civil"]

Rotate(roles, k) == [i \in 1..Len(roles) |-> roles[((i - 1 + k) % Len(roles)) + 1]]

ForceDetective_Skip(roles, target_pid) == roles

\* assign_roles, lines 158-164: the detective's role is swapped onto a human
ForceDetective(roles, target_pid) ==
  IF target_pid = None \/ "detective" \notin Range(roles) THEN roles
  ELSE LET det_index == FirstOf({i \in 1..Len(roles) : roles[i] = "detective"})
       IN [roles EXCEPT ![det_index] = roles[target_pid], ![target_pid] = "detective"]

\* assign_roles, lines 156-164: the lists of roles after the shuffle (one of
\* the first w rotations) and the swap (onto one of the first r humans), in
\* roster order
Deals(pl, w, r) ==
  LET human_ids == {i \in 1..Len(pl) : ~pl[i].is_bot}
  IN {ForceDetective(Rotate(RolePool(Len(pl)), k), t) :
        k \in 0..(w - 1),
        t \in IF human_ids = {} THEN {None}
              ELSE {i \in human_ids : Cardinality({j \in human_ids : j < i}) < r}}

AssignedRoles(pl) == Deals(pl, ShuffleWidth, RandWidth)

\* assign_roles, line 166
active_pool(roles) ==
  LET active == {roles[i] : i \in {j \in 1..Len(roles) : roles[j] # "civil"}}
  IN IF active = {} THEN {"don"} ELSE active

CanStart_Above(pl) == Len(pl) > MIN_PLAYERS

\* can_start, and start_game, line 196
CanStart(pl) == Len(pl) >= MIN_PLAYERS

\* start_game, lines 193-198, and assign_roles up to its first await: the
\* request is refused with a reason, or it is accepted and the roles are
\* drawn for the roster as it is
StartGameW(w, r) ==
  /\ Quiet
  /\ LET err == IF phase # "lobby" THEN "game_running"
                ELSE IF ~CanStart(players) THEN "few_players"
                ELSE ""
     IN IF err # ""
        THEN /\ hist' = Replied(hist, "start", None, err)
             /\ UNCHANGED handlers
        ELSE /\ FreeSlot # None
             /\ hist.starts < MaxStarts
             /\ hist' = [Replied(hist, "start", None, "") EXCEPT !.starts = @ + 1]
             /\ \E roles \in Deals(players, w, r) :
                  handlers' = [handlers EXCEPT ![FreeSlot] =
                                 [Idle EXCEPT !.op = "start_game", !.pc = "assign",
                                              !.idx = 1, !.roles = roles,
                                              !.n = Len(players)]]
  /\ UNCHANGED <<regVars, dbVars, gameVars, countdown>>

StartGame == StartGameW(ShuffleWidth, RandWidth)

\* assign_roles, lines 168-177, one participant of pid_order per step: a
\* human who is dealt civil and holds a role buff in the Store draws from
\* active_pool instead; the role is set and stored; a participant that is
\* gone from the roster raises KeyError and ends the handler
AssignStep(h) ==
  /\ Quiet /\ handlers[h].pc = "assign"
  /\ LET idx == handlers[h].idx
     IN IF idx > Len(players)
        THEN /\ handlers' = [handlers EXCEPT ![h] = Idle]
             /\ UNCHANGED <<players, db_rows>>
        ELSE \E role \in IF players[idx].user_id # None /\ handlers[h].roles[idx] = "civil"
                          THEN {"civil"} \cup active_pool(handlers[h].roles)
                          ELSE {handlers[h].roles[idx]} :
               /\ players' = [players EXCEPT
                                ![idx].role = role,
                                ![idx].potato_ready = IF bukovel /\ role = "civil" THEN TRUE ELSE @]
               /\ db_rows' = Append(db_rows,
                                    StoredRow(game_id, idx, players[idx].user_id, role, TRUE))
               /\ handlers' = [handlers EXCEPT
                                 ![h].idx = idx + 1,
                                 ![h].pc = IF idx = handlers[h].n THEN "assigned" ELSE "assign"]
  /\ UNCHANGED <<regVars, db_games, phase, round_no, game_id, bukovel, tallyVars,
                 executioner_immunity, countdown, hist>>

\* send_roles begins to iterate the roster
SendRoles(h) ==
  /\ Quiet /\ handlers[h].pc = "assigned"
  /\ handlers' = [handlers EXCEPT ![h].pc = "send", ![h].n = Len(players)]
  /\ UNCHANGED <<regVars, dbVars, gameVars, countdown, hist>>

\* start_night, lines 206-214, called by a handler
HandlerStartNight(h) ==
  /\ StartNightBody
  /\ players' = ClearActions(players)
  /\ handlers' = [handlers EXCEPT ![h].pc = "sn_anim"]
  /\ UNCHANGED <<regVars, dbVars, game_id, bukovel, executioner_immunity, countdown>>

\* send_roles ends (a roster that changed size under the iteration raises
\* RuntimeError); start_game goes on to the potato notice or to start_night
SendRolesDone(h) ==
  /\ Quiet /\ handlers[h].pc = "send"
  /\ IF Len(players) # handlers[h].n
     THEN /\ handlers' = [handlers EXCEPT ![h] = Idle]
          /\ UNCHANGED <<regVars, dbVars, gameVars, countdown, hist>>
     ELSE IF bukovel
     THEN /\ handlers' = [handlers EXCEPT ![h].pc = "buk"]
          /\ UNCHANGED <<regVars, dbVars, gameVars, countdown, hist>>
     ELSE HandlerStartNight(h)

\* start_game, line 202, after the potato notice
StartNightH(h) ==
  /\ Quiet /\ handlers[h].pc = "buk"
  /\ HandlerStartNight(h)

\* start_night, lines 215-216, called by a handler: the previous countdown is
\* cancelled, the night countdown armed, every bot acts and every
\* actionable human gets a keyboard
StartNightArmH(h) ==
  /\ Quiet /\ handlers[h].pc = "sn_anim"
  /\ countdown' = ArmedTask("night")
  /\ players' \in RequestNightActions(players, FALSE)
  /\ hist' = [Filled(hist, Served(players, FALSE)) EXCEPT !.acted = {}]
  /\ handlers' = [handlers EXCEPT ![h] = Idle]
  /\ UNCHANGED <<regVars, dbVars, phase, round_no, game_id, bukovel, tallyVars,
                 executioner_immunity>>

\* ------------------------------------------------ Countdown and VoteEngine
\* _run_countdown: the countdown runs out in a lobby or an ended session and
\* dispatches nothing
ExpireIdle ==
  /\ countdown.pc = "sleep" /\ Quiet
  /\ phase \in {"lobby", "ended"}
  /\ countdown' = EndedTask(countdown, "done")
  /\ UNCHANGED <<regVars, dbVars, gameVars, handlers, hist>>

\* _run_countdown finds the day: start_vote, lines 406-410
ExpireDay ==
  /\ countdown.pc = "sleep" /\ Quiet
  /\ phase = "day"
  /\ phase' = "vote"
  /\ vote_yes_no' = EmptyDict
  /\ nominations' = <<>>
  /\ pending_candidate' = None
  /\ countdown' = [countdown EXCEPT !.pc = "sv_arm"]
  /\ hist' = Dispatched(hist)
  /\ UNCHANGED <<regVars, dbVars, round_no, game_id, bukovel, players, confirmations,
                 executioner_immunity, handlers>>

\* A Notifier call that is not inside a try block raises while the countdown
\* task waits for it, and the exception ends the task: the night animation of
\* start_night (line 214), the morning report of resolve_night (392-394),
\* the vote animation and poll of start_vote (410-411), the announcement of
\* an execution (549)
NotifierFails ==
  /\ countdown.pc \in {"sn_arm", "rn_rep", "sv_arm", "fc_rep"}
  /\ countdown' = EndedTask(countdown, "crashed")
  /\ hist' = [hist EXCEPT !.failed = TRUE]
  /\ UNCHANGED <<regVars, dbVars, gameVars, handlers>>

\* start_vote, line 411: the vote countdown is armed
StartVoteArm ==
  /\ countdown.pc = "sv_arm"
  /\ countdown' = ArmedTask("vote")
  /\ UNCHANGED <<regVars, dbVars, gameVars, handlers, hist>>

\* vote_callback: any user's yes or no is recorded while the vote is open;
\* outside the vote nothing is recorded.  (Only a run that watches for calls
\* out of their phase follows the refused ones; in the vote phase the poll
\* keyboard is pressed while the poll runs.)
VoteCallback(u, vote_yes) ==
  /\ Quiet
  /\ IF phase = "vote" THEN countdown.pc = "sleep" ELSE hist.watch
  /\ vote_yes_no' = IF PollOpen(phase) THEN Put(vote_yes_no, u, vote_yes)
                    ELSE vote_yes_no
  /\ hist' = OutOfPhase(hist, "vote")
  /\ UNCHANGED <<regVars, dbVars, phase, round_no, game_id, bukovel, players,
                 nominations, confirmations, pending_candidate, executioner_immunity,
                 countdown, handlers>>

\* state.nominations[pid] = target: a dict that keeps its insertion order
NomPut(noms, pid, target) ==
  IF \E i \in 1..Len(noms) : noms[i][1] = pid
  THEN [i \in 1..Len(noms) |-> IF noms[i][1] = pid THEN <<pid, target>> ELSE noms[i]]
  ELSE Append(noms, <<pid, target>>)

RECURSIVE NomAll(_, _, _)
NomAll(noms, order, f) ==
  IF order = <<>> THEN noms
  ELSE NomAll(NomPut(noms, order[1], f[order[1]]), Tail(order), f)

\* (mutant) a tie of yes and no goes on to the nominations
NoLynch_Strict(yes, no) == yes < no
\* finish_vote, line 430: yes <= no
NoLynch(yes, no) == yes <= no

\* _run_countdown finds the vote: finish_vote, and with more yes than no
\* start_nominations up to its sleep (every living bot nominates)
ExpireVote ==
  /\ countdown.pc = "sleep" /\ Quiet
  /\ phase = "vote"
  /\ LET yes == Cardinality({u \in DOMAIN vote_yes_no : vote_yes_no[u]})
         no == Cardinality(DOMAIN vote_yes_no) - yes
         alive == alive_players(players)
         bots == {i \in alive : players[i].is_bot /\ alive \ {i} # {}}
     IN /\ hist' = [Dispatched(hist) EXCEPT !.poll = <<yes, no>>]
        /\ IF NoLynch(yes, no)
           THEN /\ countdown' = [countdown EXCEPT !.pc = "fv_msg"]
                /\ UNCHANGED nominations
           ELSE /\ countdown' = [countdown EXCEPT !.pc = "nom_wait"]
                /\ \E f \in BotPicks(bots, alive) :
                     nominations' = NomAll(nominations, InOrder(bots), f)
  /\ UNCHANGED <<regVars, dbVars, phase, round_no, game_id, bukovel, players, vote_yes_no,
                 confirmations, pending_candidate, executioner_immunity, handlers>>

\* handle_nomination (lines 452-467): the target of the callback "nom:<target>"
\* is recorded for the first living participant with the user's id, in the
\* first session that has one and whose phase is vote
HandleNomination(u, target) ==
  /\ Quiet
  /\ LET pid == LivingAs(players, u)
         opid == LivingAs(other.players, u)
         there == StopsAtOther(pid # None /\ phase = "vote",
                               opid # None /\ other.phase = "vote")
         recorded == ~there /\ pid # None /\ phase = "vote" /\ target > 0
     IN /\ other' = IF there /\ target > 0
                    THEN [other EXCEPT !.nominations = NomPut(@, opid, target)]
                    ELSE other
        /\ nominations' = IF recorded THEN NomPut(nominations, pid, target)
                          ELSE nominations
        /\ hist' = Replied(IF ~recorded THEN hist
                           ELSE IF countdown.pc = "sleep"
                           THEN [hist EXCEPT !.early = @ \cup {pid}]
                           ELSE [hist EXCEPT !.early = @ \ {pid}],
                           "nom", u,
                           IF there \/ (pid # None /\ phase = "vote") THEN ""
                           ELSE "no_answer")
  /\ UNCHANGED <<mgrVars, dbVars, phase, round_no, game_id, bukovel, players, vote_yes_no,
                 confirmations, pending_candidate, executioner_immunity, countdown,
                 handlers>>

\* a living human presses a button of the nomination keyboard
PressNomination ==
  /\ countdown.pc = "nom_wait"
  /\ \E pid \in alive_players(players) :
       /\ ~players[pid].is_bot /\ players[pid].user_id \in 1..NumUsers
       /\ \E target \in Buttons(pid) : HandleNomination(players[pid].user_id, target)

\* a living human presses, while the poll or the nomination window of the
\* vote phase runs, a button of the nomination keyboard an earlier vote (of
\* this or an earlier game in which the pids were dealt otherwise) left unused
PressOldNomination ==
  /\ phase = "vote" /\ countdown.pc \in {"sleep", "nom_wait"}
  /\ \E pid \in alive_players(players) :
       /\ ~players[pid].is_bot /\ players[pid].user_id \in 1..NumUsers
       /\ \E target \in 1..OldButtons : HandleNomination(players[pid].user_id, target)

\* the finish_vote / pick_nomination / finish_confirmation branches that
\* announce "no execution" and call start_night (lines 206-214)
StartNightTask ==
  /\ countdown.pc = "fv_msg"
  /\ StartNightBody
  /\ players' = ClearActions(players)
  /\ countdown' = [countdown EXCEPT !.pc = "sn_arm"]
  /\ UNCHANGED <<regVars, dbVars, game_id, bukovel, executioner_immunity, handlers>>

\* pick_nomination: max(counts.items(), key=votes), the first target holding
\* the highest count
NomCount(noms, t) == Cardinality({i \in 1..Len(noms) : noms[i][2] = t})
Candidate(noms) ==
  noms[CHOOSE i \in 1..Len(noms) :
         /\ \A j \in 1..Len(noms) : NomCount(noms, noms[j][2]) <= NomCount(noms, noms[i][2])
         /\ \A j \in 1..(i - 1) : NomCount(noms, noms[j][2]) < NomCount(noms, noms[i][2])][2]

\* pick_nomination, after the nomination window
PickNomination ==
  /\ countdown.pc = "nom_wait"
  /\ LET threshold == (Cardinality(alive_players(players)) + 1) \div 2
     IN IF nominations = <<>> \/ NomCount(nominations, Candidate(nominations)) < threshold
        THEN /\ countdown' = [countdown EXCEPT !.pc = "fv_msg"]
             /\ UNCHANGED pending_candidate
        ELSE /\ pending_candidate' = Candidate(nominations)
             /\ countdown' = IF Candidate(nominations) \in Pids
                             THEN [countdown EXCEPT !.pc = "pn_msg"]
                             ELSE EndedTask(countdown, "crashed")
  /\ UNCHANGED <<regVars, dbVars, phase, round_no, game_id, bukovel, players, vote_yes_no,
                 nominations, confirmations, executioner_immunity, handlers, hist>>

\* ask_confirmations: the living bots other than the candidate answer at
\* random (here the first k of them say yes), the humans get a keyboard,
\* and the confirmation window opens; without a candidate it returns
AskConfirmations ==
  /\ countdown.pc = "pn_msg"
  /\ LET candidate == pending_candidate
         bots == {i \in alive_players(players) : players[i].is_bot /\ i # candidate}
     IN IF candidate = None
        THEN /\ confirmations' = EmptyDict
             /\ countdown' = EndedTask(countdown, "done")
        ELSE /\ \E k \in 0..Cardinality(bots) :
                  confirmations' =
                    [b \in bots |-> Cardinality({j \in bots : j < b}) < k]
             /\ countdown' = [countdown EXCEPT !.pc = "conf_wait"]
  /\ UNCHANGED <<regVars, dbVars, phase, round_no, game_id, bukovel, players, vote_yes_no,
                 nominations, pending_candidate, executioner_immunity, handlers, hist>>

\* handle_confirmation (lines 513-524): the answer is recorded for the first
\* living participant with the user's id that is not the candidate, in the
\* first session in the vote phase that has one
HandleConfirmation(u, confirm_yes) ==
  /\ Quiet
  /\ LET pid == FirstOf({i \in alive_players(players) :
                           players[i].user_id = u /\ i # pending_candidate})
         opid == FirstOf({i \in alive_players(other.players) :
                            other.players[i].user_id = u /\ i # other.pending_candidate})
         there == StopsAtOther(pid # None /\ phase = "vote",
                               opid # None /\ other.phase = "vote")
     IN /\ other' = IF there
                    THEN [other EXCEPT !.confirmations = Put(@, opid, confirm_yes)]
                    ELSE other
        /\ confirmations' = IF ~there /\ phase = "vote" /\ pid # None
                            THEN Put(confirmations, pid, confirm_yes)
                            ELSE confirmations
        /\ hist' = Replied(hist, "confirm", u,
                           IF there \/ (pid # None /\ phase = "vote") THEN ""
                           ELSE "no_answer")
  /\ UNCHANGED <<mgrVars, dbVars, phase, round_no, game_id, bukovel, players, vote_yes_no,
                 nominations, pending_candidate, executioner_immunity, countdown,
                 handlers>>

\* a living human presses a button of a confirmation keyboard: the one it
\* was sent for this candidate, or (the candidate, and anyone before the
\* confirmation window opens) one an earlier vote left unused
PressConfirmation ==
  /\ countdown.pc \in {"nom_wait", "pn_msg", "conf_wait"}
  /\ \E pid \in alive_players(players) :
       /\ ~players[pid].is_bot /\ players[pid].user_id \in 1..NumUsers
       /\ \E v \in BOOLEAN : HandleConfirmation(players[pid].user_id, v)

\* (mutant) the nominee is spared only below half of the living
Spared_Below(yes, alive) == yes < alive \div 2
\* finish_confirmation, lines 532-534: yes <= needed
Spared(yes, alive) == yes <= alive \div 2

\* (mutant) a broken rope always consumes the immunity
ImmunityAfter_Always(role, immunity) == FALSE
\* finish_confirmation, lines 543-544
ImmunityAfter(role, immunity) == IF role = "executioner" THEN FALSE ELSE immunity

\* finish_confirmation, lines 527-549, after the confirmation window: no
\* candidate, too few confirmations, a broken rope, or the execution
FinishConfirmation ==
  /\ countdown.pc = "conf_wait"
  /\ LET candidate == pending_candidate
         yes == Cardinality({i \in DOMAIN confirmations : confirmations[i]})
     IN IF candidate = None
        THEN /\ StartNightBody
             /\ players' = ClearActions(players)
             /\ countdown' = [countdown EXCEPT !.pc = "sn_arm"]
             /\ UNCHANGED <<db_rows, executioner_immunity>>
        ELSE IF candidate \notin Pids
        THEN /\ countdown' = EndedTask(countdown, "crashed")
             /\ UNCHANGED <<db_rows, phase, round_no, players, tallyVars,
                            executioner_immunity, hist>>
        ELSE IF Spared(yes, Cardinality(alive_players(players)))
        THEN /\ countdown' = [countdown EXCEPT !.pc = "fv_msg"]
             /\ hist' = [hist EXCEPT !.verdict = "spared"]
             /\ UNCHANGED <<db_rows, phase, round_no, players, tallyVars,
                            executioner_immunity>>
        ELSE \E rope_breaks \in BOOLEAN :
               IF rope_breaks
               THEN /\ executioner_immunity' =
                         ImmunityAfter(players[candidate].role, executioner_immunity)
                    /\ countdown' = [countdown EXCEPT !.pc = "fv_msg"]
                    /\ hist' = [hist EXCEPT !.verdict = "rope"]
                    /\ UNCHANGED <<db_rows, phase, round_no, players, tallyVars>>
               ELSE /\ players' = [players EXCEPT ![candidate].alive = FALSE]
                    /\ db_rows' = MarkDead(db_rows, game_id, {candidate})
                    /\ countdown' = [countdown EXCEPT !.pc = "fc_rep"]
                    /\ hist' = [hist EXCEPT !.verdict = "hanged"]
                    /\ UNCHANGED <<phase, round_no, tallyVars, executioner_immunity>>
  /\ UNCHANGED <<regVars, db_games, game_id, bukovel, handlers>>

\* ------------------------------------------------------------ the session
\* The lobby the rosters of these runs come from: a human and four bots.
Lobby5 == <<PlayerState(1, FALSE), PlayerState(None, TRUE), PlayerState(None, TRUE),
            PlayerState(None, TRUE), PlayerState(None, TRUE)>>

\* the rosters start_game makes of Lobby5
Started(buk) ==
  {[i \in 1..Len(Lobby5) |->
      [Lobby5[i] EXCEPT !.role = roles[i],
                        !.potato_ready = buk /\ roles[i] = "civil"]] :
     roles \in AssignedRoles(Lobby5)}

\* From the first night to the armed vote countdown, with the commands:
\* game 1 is in its first night as start_game left it.
GameInit ==
  /\ \E pl \in Started(FALSE) :
       \E acted \in RequestNightActions(pl, FALSE) :
         InGameInit(acted, FALSE, "night", 1)
  /\ handlers = [h \in {1} |-> Idle]
  /\ hist = [HistInit EXCEPT !.nights = 1]

GameNext ==
  \/ \E b \in BOOLEAN : StartNewGame(b)
  \/ \E h \in Slots : StartNewGameDone(h)
  \/ CancelGame
  \/ Len(players) < MaxRoster /\ \E u \in 1..NumUsers : AddPlayer(u)
  \/ /\ Len(players) < MaxRoster
     /\ Cardinality({i \in Pids : ~players[i].is_bot}) >= BotsAfter
     /\ AddBot
  \/ StartGame
  \/ \E h \in Slots : AssignStep(h)
  \/ \E h \in Slots : SendRoles(h)
  \/ \E h \in Slots : SendRolesDone(h)
  \/ \E h \in Slots : StartNightH(h)
  \/ \E h \in Slots : StartNightArmH(h)
  \/ PressNightButton
  \/ ExpireIdle
  \/ ExpireNight
  \/ RnDeputy
  \/ RnConsigliere
  \/ RnPetrushka
  \/ RnDoctor
  \/ RnPotato
  \/ RnKill
  \/ CheckWin
  \/ CheckWinPersist
  \/ CheckWinEnd
  \/ ResolveNightEnd
  \/ ExpireDay
  \/ StartVoteArm

SpecGame == GameInit /\ [][GameNext]_vars

\* From the armed vote countdown to the next night, with the commands.
VoteInit ==
  /\ \E pl \in Started(FALSE) : InGameInit(pl, FALSE, "vote", 1)
  /\ handlers = [h \in {1} |-> Idle]
  /\ hist = [HistInit EXCEPT !.nights = 1]

VoteNext ==
  \/ \E b \in BOOLEAN : StartNewGame(b)
  \/ \E h \in Slots : StartNewGameDone(h)
  \/ CancelGame
  \/ \E u \in 1..NumVoters : \E v \in BOOLEAN : VoteCallback(u, v)
  \/ ExpireIdle
  \/ ExpireVote
  \/ PressNomination
  \/ StartNightTask
  \/ PickNomination
  \/ AskConfirmations
  \/ PressConfirmation
  \/ FinishConfirmation
  \/ CheckWin
  \/ CheckWinPersist
  \/ CheckWinEnd
  \/ FinishConfirmationEnd
  \/ StartNightArm

SpecVote == VoteInit /\ [][VoteNext]_vars

\* Two start requests and the joins around them: a lobby that can start.
StartInit ==
  /\ InGameInit(Lobby5, FALSE, "lobby", 0)
  /\ handlers = [h \in 1..MaxHandlers |-> Idle]
  /\ hist = HistInit

StartNext ==
  \/ /\ Len(players) < MaxRoster
     /\ Cardinality({i \in Pids : ~players[i].is_bot}) >= BotsAfter
     /\ AddBot
  \/ StartGame
  \/ \E h \in Slots : AssignStep(h)
  \/ \E h \in Slots : SendRoles(h)
  \/ \E h \in Slots : SendRolesDone(h)
  \/ \E h \in Slots : StartNightArmH(h)

SpecStart == StartInit /\ [][StartNext]_vars

\* The lynch on its own: the vote phase as start_vote leaves it (poll open,
\* vote countdown armed) in the first round of a five-player game whose one
\* human (the detective, as assign_roles forces) joined first or fourth.
\* Nobody has died yet, or participant 5 died in the night.  The human has
\* not used the night keyboard.  No command interferes.
LynchRosters ==
  {<<"detective", "executioner", "don", "doctor", "mayor">>,
   <<"executioner", "don", "doctor", "detective", "mayor">>}

LynchPlayers(roles, dead) ==
  [i \in 1..Len(roles) |->
     [PlayerState(IF roles[i] = "detective" THEN 1 ELSE None, roles[i] # "detective")
        EXCEPT !.role = roles[i], !.alive = i \notin dead]]

LynchInit ==
  /\ \E roles \in LynchRosters, dead \in {{}, {5}} :
       InGameInit(LynchPlayers(roles, dead), FALSE, "vote", 1)
  /\ handlers = EmptyDict
  /\ hist = [HistInit EXCEPT !.nights = 1]

LynchNext ==
  \/ \E u \in 1..NumVoters : \E v \in BOOLEAN : VoteCallback(u, v)
  \/ PressNightButton
  \/ PressOldNomination
  \/ ExpireVote
  \/ PressNomination
  \/ PickNomination
  \/ AskConfirmations
  \/ PressConfirmation
  \/ FinishConfirmation
  \/ StartNightTask
  \/ CheckWin
  \/ CheckWinPersist
  \/ CheckWinEnd
  \/ FinishConfirmationEnd
  \/ StartNightArm

SpecLynch == LynchInit /\ [][LynchNext]_vars

\* the highest count a target holds in the tally (0 when nobody nominated)
TopCount(noms) == IF noms = <<>> THEN 0 ELSE NomCount(noms, Candidate(noms))

\* the countdown task leaves the nomination window: pick_nomination ran
PickStep == countdown.pc = "nom_wait" /\ countdown'.pc # "nom_wait"

\* C11: when pick_nomination runs with aliveCount living participants, a top
\* count below floor(aliveCount/2)+1 sets no candidate, kills nobody and leads
\* to the announcement that is followed by the night; a top count of at least
\* that many makes a target holding it the pending candidate.
C11_MajorityThreshold ==
  [][PickStep =>
       LET majority == (Cardinality(alive_players(players)) \div 2) + 1
           top == TopCount(nominations)
       IN IF top < majority
          THEN /\ pending_candidate' = None
               /\ countdown'.pc = "fv_msg"
               /\ players' = players
          ELSE /\ pending_candidate' # None
               /\ NomCount(nominations, pending_candidate') = top]_vars

\* the yes and the no votes of a tally
Yes(v) == Cardinality({u \in DOMAIN v : v[u]})
No(v) == Cardinality({u \in DOMAIN v : ~v[u]})

\* the vote countdown ran out: finish_vote ran
PollEnds == countdown.pc = "sleep" /\ phase = "vote" /\ countdown'.pc # "sleep"

\* what finish_vote read was no more yes than no
PollSaidNo == hist.poll # <<>> /\ hist.poll[1] <= hist.poll[2]

\* C12: when the vote countdown expires with yes <= no (no votes at all
\* included) the task goes to the "no execution" announcement with the tally
\* of nominations untouched, no candidate and nobody dead; from there, still
\* in the vote phase, its next step is start_night: phase night, the round
\* counter one higher, the same participants alive.  With yes > no the
\* nominations are collected: every living bot has nominated and the
\* nomination window is open.
C12_PollDecides ==
  /\ [][PollEnds =>
          IF Yes(vote_yes_no) <= No(vote_yes_no)
          THEN /\ countdown'.pc = "fv_msg"
               /\ nominations' = nominations
               /\ pending_candidate' = None
               /\ players' = players
          ELSE /\ countdown'.pc = "nom_wait"
               /\ \A b \in alive_players(players) :
                    players[b].is_bot =>
                      \E i \in 1..Len(nominations') : nominations'[i][1] = b]_vars
  /\ [](phase = "vote" /\ PollSaidNo =>
          countdown.pc = "fv_msg" /\ pending_candidate = None)
  /\ [][phase = "vote" /\ PollSaidNo /\ countdown'.pc # countdown.pc =>
          /\ phase' = "night"
          /\ round_no' = round_no + 1
          /\ alive_players(players') = alive_players(players)
          /\ nominations' = <<>>]_vars

\* a poll of one yes and one no was followed by the second night
C12_Witness ==
  /\ phase = "night" /\ round_no = 2
  /\ hist.poll = <<1, 1>>
  /\ alive_players(players) = 1..5

\* the countdown task leaves the confirmation window: finish_confirmation ran
ConfirmStep == countdown.pc = "conf_wait" /\ countdown'.pc # "conf_wait"

\* C13: while confirmations are collected the nominee has no entry in them;
\* when finish_confirmation runs with at most floor(aliveCount/2) yes
\* confirmations the nominee is spared (nobody dies, the task goes to the
\* announcement) and the task's next step is start_night with the nominee
\* alive; with more yes confirmations the rope-break roll decides.
C13_ConfirmationThreshold ==
  /\ [](countdown.pc = "conf_wait" => pending_candidate \notin DOMAIN confirmations)
  /\ [][ConfirmStep /\ pending_candidate \in Pids =>
          IF Yes(confirmations) <= Cardinality(alive_players(players)) \div 2
          THEN /\ hist'.verdict = "spared"
               /\ players' = players
               /\ countdown'.pc = "fv_msg"
          ELSE hist'.verdict \in {"rope", "hanged"}]_vars
  /\ [][hist.verdict = "spared" /\ countdown'.pc # countdown.pc =>
          /\ phase' = "night"
          /\ players'[pending_candidate].alive]_vars

\* five living participants, two yes confirmations, one of them the human's:
\* the nominee was spared
C13_Witness ==
  /\ hist.verdict = "spared" /\ countdown.pc = "fv_msg"
  /\ Cardinality(alive_players(players)) = 5
  /\ Yes(confirmations) = 2
  /\ \E i \in DOMAIN confirmations : ~players[i].is_bot /\ confirmations[i]
  /\ players[pending_candidate].alive

\* C14: when finish_confirmation ends in a broken rope nobody dies, the
\* immunity flag stays as it was unless the nominee is the executioner, in
\* which case it is consumed, and the task's next step is start_night with
\* the nominee alive; when it ends in the execution the nominee is dead in
\* the roster and in the Store, the session is still in the vote phase with
\* the task before check_win, and the night begins only after check_win has
\* returned.
C14_RopeBreak ==
  /\ [][ConfirmStep /\ hist'.verdict = "rope" =>
          /\ players' = players
          /\ players[pending_candidate].alive
          /\ countdown'.pc = "fv_msg"
          /\ executioner_immunity' =
               (executioner_immunity /\ players[pending_candidate].role # "executioner")]_vars
  /\ [][hist.verdict = "rope" /\ countdown'.pc # countdown.pc =>
          /\ phase' = "night"
          /\ players'[pending_candidate].alive]_vars
  /\ [][ConfirmStep /\ hist'.verdict = "hanged" =>
          /\ ~players'[pending_candidate].alive
          /\ \E i \in 1..Len(db_rows') :
               /\ db_rows'[i].game_id = game_id
               /\ db_rows'[i].name = pending_candidate
               /\ ~db_rows'[i].is_alive
          /\ countdown'.pc = "fc_rep"
          /\ phase' = "vote"]_vars
  /\ [](hist.verdict = "hanged" /\ phase = "vote" =>
          countdown.pc \in {"fc_rep", "cw_db", "cw_end", "cw_ret"})
  /\ [][hist.verdict = "hanged" /\ phase # "night" /\ phase' = "night" =>
          countdown.pc = "cw_ret" /\ countdown.ret = "fc_rep"]_vars

\* the rope broke under the executioner: alive, and the immunity is consumed
C14_Witness ==
  /\ hist.verdict = "rope"
  /\ pending_candidate \in Pids
  /\ players[pending_candidate].role = "executioner"
  /\ players[pending_candidate].alive
  /\ ~executioner_immunity

\* C15: the yes/no tally finish_vote reads when the vote countdown expires
\* holds only votes of users who are living participants of the roster.
C15_OnlyLivingVote ==
  [][PollEnds =>
       \A u \in DOMAIN vote_yes_no :
         \E i \in alive_players(players) : players[i].user_id = u]_vars

\* C16: the tally pick_nomination counts holds no nomination that was
\* submitted while the yes/no poll was still running.
C16_EarlyDiscarded ==
  [][PickStep =>
       \A i \in 1..Len(nominations) : nominations[i][1] \notin hist.early]_vars

\* C18: when pick_nomination sets the pending candidate (from nominations
\* that were all submitted in the nomination window) it is a living
\* participant of the roster, and the nominations other participants made
\* for it reach pick_nomination's threshold by themselves: no nomination a
\* participant made for itself was needed.
C18_CandidateIsLivingOther ==
  [][PickStep /\ pending_candidate' # None /\ hist.early = {} =>
       /\ pending_candidate' \in alive_players(players)
       /\ Cardinality({i \in 1..Len(nominations) :
                         /\ nominations[i][2] = pending_candidate'
                         /\ nominations[i][1] # pending_candidate'})
            >= (Cardinality(alive_players(players)) + 1) \div 2]_vars

\* the first-reached-max rule: replaying the tally in its iteration order,
\* the index at which target t gets its n-th nomination
ReachedAt(noms, t, n) ==
  CHOOSE i \in 1..Len(noms) :
    /\ noms[i][2] = t
    /\ Cardinality({j \in 1..i : noms[j][2] = t}) = n
\* the target that is first to hold the final highest count
FirstReachedMax(noms) ==
  LET top == TopCount(noms)
      tied == {noms[i][2] : i \in {j \in 1..Len(noms) : NomCount(noms, noms[j][2]) = top}}
  IN CHOOSE t \in tied :
       \A o \in tied : ReachedAt(noms, t, top) <= ReachedAt(noms, o, top)

\* the tally in the order of the roster: by nominator
ByNominator(noms) ==
  [k \in 1..Len(noms) |->
     noms[CHOOSE i \in 1..Len(noms) :
            Cardinality({j \in 1..Len(noms) : noms[j][1] < noms[i][1]}) = k - 1]]

\* C19: the candidate pick_nomination sets (from nominations that were all
\* submitted in the nomination window and name another living participant)
\* is the target that first reached the highest count when the nominations
\* are replayed in nominator iteration order: the order of the tally, or
\* the order of the nominators in the roster.
C19_TieFirstReached ==
  [][/\ PickStep /\ pending_candidate' # None /\ hist.early = {}
     /\ \A i \in 1..Len(nominations) :
          nominations[i][2] \in alive_players(players) \ {nominations[i][1]}
     =>
       \/ pending_candidate' = FirstReachedMax(nominations)
       \/ pending_candidate' = FirstReachedMax(ByNominator(nominations))]_vars

\* C20: in lobby, night, day and ended there is no pending candidate.
C20_CandidateCleared ==
  phase \in {"lobby", "night", "day", "ended"} => pending_candidate = None

\* ----------------------------------------------------------------------
\* Buttons pressed in any phase: a lobby of five, or a game of five or ten
\* humans in its first night, day or vote (participant 1 may have acted in
\* the night), every human holding its night keyboard and the chat showing
\* a vote keyboard.  The calls made outside their phase are recorded.
FrameInit ==
  /\ \/ InGameInit(Lobby5, FALSE, "lobby", 0)
     \/ \E roles \in NightRosters, ph \in {"night", "day", "vote"}, acted \in BOOLEAN :
          InGameInit([Assigned(roles, TRUE) EXCEPT
                        ![1].night_action = IF acted /\ ph # "night" THEN 2 ELSE None],
                     TRUE, ph, 1)
  /\ handlers = EmptyDict
  /\ hist = [HistInit EXCEPT !.watch = TRUE, !.nights = 1]

FrameNext ==
  \/ \E u \in 1..NumVoters : \E v \in BOOLEAN : VoteCallback(u, v)
  \/ PressNightButton

SpecFrame == FrameInit /\ [][FrameNext]_vars

\* C17: a night action submitted while the phase is not night, and a yes/no
\* vote submitted while the phase is not vote, change nothing of the session:
\* roster and pending actions, tallies, candidate, phase, round, countdown and
\* Store are as before.
C17_OutOfPhaseIgnored ==
  [][~hist.refused /\ hist'.refused =>
       UNCHANGED <<regVars, dbVars, gameVars, countdown, handlers>>]_vars

\* in the vote phase, with a vote cast and a night action pending from the
\* night, a night button was pressed and refused
C17_Witness ==
  /\ hist.refused
  /\ phase = "vote"
  /\ Yes(vote_yes_no) = 1
  /\ players[1].night_action = 2

\* ----------------------------------------------------------------------
\* The second round of a ten-player potato game: the vote phase of round 1
\* as start_vote leaves it, after a first night in which the don's target
\* (participant 9) died.  Participants 2, 4, 9 and 10 are human; the human
\* with user id 1 is participant 2 and holds the doctor role (and healed
\* itself in the first night with an old keyboard, or did nothing) or is the
\* one civil (and threw its potato at the don, without a hit, or did
\* nothing).  The bots hold the targets _auto_action gave them in the first
\* night (the petrushka's target was the don, and the role drawn for it was
\* don again).  The human has voted yes in the poll, or nobody has voted.
RoundsRoles(first) ==
  <<"don", first, "petrushka", "detective", "mafia", "executioner", "deputy",
    "consigliere", "mayor", IF first = "doctor" THEN "civil" ELSE "doctor">>

RoundsPlayers(first, used) ==
  LET roles == RoundsRoles(first)
      uid == [i \in 1..10 |-> CASE i = 2 -> 1 [] i = 4 -> 6 [] i = 9 -> 8
                                 [] i = 10 -> 7 [] OTHER -> None]
  IN [i \in 1..10 |->
        [PlayerState(uid[i], uid[i] = None) EXCEPT
           !.role = roles[i],
           !.alive = i # 9,
           !.potato_ready = roles[i] = "civil",
           !.potato_used = i = 2 /\ used /\ first = "civil",
           !.self_heal_used = i = 2 /\ used /\ first = "doctor",
           !.night_action =
              CASE i = 1 -> 9
                [] i = 2 -> IF ~used THEN None ELSE IF first = "doctor" THEN 2 ELSE 1
                [] i \in {3, 5, 7, 8} -> 1
                [] OTHER -> None]]

RoundsInit ==
  /\ \E first \in {"doctor", "civil"}, used \in BOOLEAN :
       /\ InGameInit(RoundsPlayers(first, used), TRUE, "vote", 1)
       /\ hist = [HistInit EXCEPT
                    !.track = TRUE, !.nights = 1,
                    !.acted = IF used /\ first = "civil" THEN {1} ELSE {},
                    !.rolled = IF used /\ first = "civil" THEN {2} ELSE {},
                    !.swapped = {3}]
  /\ handlers = EmptyDict

RoundsNext ==
  \/ \E v \in BOOLEAN : VoteCallback(1, v)
  \/ ExpireVote
  \/ PressNomination
  \/ PickNomination
  \/ AskConfirmations
  \/ FinishConfirmation
  \/ StartNightTask
  \/ CheckWin
  \/ CheckWinPersist
  \/ CheckWinEnd
  \/ FinishConfirmationEnd
  \/ StartNightArm
  \/ PressNightButton
  \/ PressOldNightButton
  \/ ExpireNight
  \/ RnDeputy
  \/ RnConsigliere
  \/ RnPetrushka
  \/ RnDoctor
  \/ RnPotato
  \/ RnKill
  \/ ResolveNightEnd

SpecRounds == RoundsInit /\ [][RoundsNext]_vars

\* C21: start_night leaves no participant with a pending night action, and
\* every pending action a night resolution reads was recorded (submitted or
\* auto-filled) after the start_night of that night.
C21_ActionsOfThisNight ==
  /\ [][hist'.nights # hist.nights =>
          phase' = "night" /\ \A i \in Pids : players'[i].night_action = None]_vars
  /\ [](InResolution =>
          \A i \in Pids :
            players[i].night_action # None \/ hist.night0[i].night_action # None
            => i \in hist.fresh)

\* the second night is being resolved: the don's target was filled in anew,
\* and petrushka, whom the second night did not serve, has none, though both
\* held a target from the first night when the vote began
C21_Witness ==
  /\ InResolution /\ round_no = 2
  /\ players[1].night_action # None /\ 1 \in hist.fresh
  /\ players[3].alive /\ players[3].night_action = None

\* C22: while a game runs, no step makes a dead participant alive again, and
\* no step increases the number of living participants.
C22_DeadStayDead ==
  [][phase' # "lobby" =>
       /\ \A i \in Pids \cap (1..Len(players')) :
            ~players[i].alive => ~players'[i].alive
       /\ Cardinality(alive_players(players'))
            <= Cardinality(alive_players(players))]_vars

\* the second night is resolved: of the nine who were alive when the vote
\* began one was executed and one died in the night, petrushka replaced a
\* role in this night, and participant 9, dead since the first night, is dead
C22_Witness ==
  /\ Resolved /\ round_no = 2
  /\ ~players[9].alive
  /\ Cardinality(alive_players(players)) = 7
  /\ \E i \in Pids : players[i].role # hist.night0[i].role

\* C29: a doctor whose self-heal was used before this night, whose target at
\* the heal step is the doctor itself and who is attacked in this night, is
\* dead when the night is resolved.
C29_SelfHealOnce ==
  Resolved =>
    LET doc_pid == Acting(hist.heal0, "doctor")
    IN doc_pid # None /\ hist.heal0[doc_pid].self_heal_used
       /\ hist.heal0[doc_pid].night_action = doc_pid
       /\ doc_pid \in Range(countdown.kills)
       => ~players[doc_pid].alive

\* C30: no night resolution rolls the potato of a participant whose potato
\* was rolled in an earlier night.
C30_PotatoOnce ==
  countdown.pc = "rn_pot" =>
    \A i \in alive_players(players) :
      players[i].potato_used /\ players[i].night_action # None => i \notin hist.rolled

\* ----------------------------------------------------------------------
\* The lobby on its own: the empty lobby start_new_game leaves, the join and
\* add-bot buttons, and cancel_game.  The humans are interchangeable, so a
\* human joins for the first time only after the humans with smaller ids.
LobbyInit ==
  /\ InGameInit(<<>>, FALSE, "lobby", 0)
  /\ handlers = EmptyDict
  /\ hist = [HistInit EXCEPT !.watch = TRUE]

LobbyNext ==
  \/ \E u \in 1..NumJoiners :
       /\ u <= Cardinality({i \in Pids : ~players[i].is_bot}) + 1
       /\ AddPlayer(u)
  \/ AddBot
  \/ CancelGame

SpecLobby == LobbyInit /\ [][LobbyNext]_vars

\* a join or add-bot call was answered in this step
LobbyCall == phase' = phase /\ (hist' # hist \/ players' # players)

\* C23: a join in a session that is not a lobby, in a full lobby, or by a
\* human who has a participant, is answered with a reason and leaves the
\* roster as it is, and so is an add-bot in a session that is not a lobby,
\* in a full lobby, or in one that holds the quota of bots; every other
\* join or add-bot appends one participant, under the next unused pid.
C23_JoinRejections ==
  [][LobbyCall =>
       LET op == hist'.reply[1]
           u == hist'.reply[2]
           err == hist'.reply[3]
           bots == Cardinality({i \in Pids : players[i].is_bot})
           refuse == \/ phase # "lobby"
                     \/ Len(players) >= MAX_PLAYERS
                     \/ op = "join" /\ \E i \in Pids : ~players[i].is_bot
                                                        /\ players[i].user_id = u
                     \/ op = "add_bot" /\ bots >= MAX_BOTS
       IN IF refuse
          THEN err # "" /\ players' = players
          ELSE /\ err = ""
               /\ Len(players') = Len(players) + 1
               /\ \A i \in Pids : players'[i] = players[i]
               /\ players'[Len(players) + 1] = PlayerState(u, op = "add_bot")]_vars

\* the lobby is full with four humans and six bots, and the join of a
\* fifth human was refused
C23_Witness ==
  /\ phase = "lobby" /\ Len(players) = MAX_PLAYERS
  /\ hist.reply = <<"join", 5, "full">>
  /\ \A i \in Pids : players[i].user_id # 5

\* C24: the roster never holds more than MAX_PLAYERS participants, more than
\* MAX_BOTS bots, or two human participants with one user id (the pids are
\* the positions 1..n of the roster, one participant each).
C24_RosterBounds ==
  /\ Len(players) <= MAX_PLAYERS
  /\ Cardinality({i \in Pids : players[i].is_bot}) <= MAX_BOTS
  /\ \A i, j \in Pids :
       ~players[i].is_bot /\ ~players[j].is_bot
       /\ players[i].user_id = players[j].user_id => i = j

\* the lobby holds the quota of bots and one more was refused, after a
\* human in the lobby had asked to join again
C24_Witness ==
  /\ phase = "lobby"
  /\ Cardinality({i \in Pids : players[i].is_bot}) = MAX_BOTS
  /\ Len(players) < MAX_PLAYERS
  /\ hist.reply = <<"add_bot", None, "enough_bots">>
  /\ \E i \in Pids : ~players[i].is_bot

\* ----------------------------------------------------------------------
\* The start of a game on its own: a lobby of n participants, h of them
\* humans standing first or last in the roster, and the start button, one
\* request at a time, with every rotation of the pool as the shuffle and
\* every human as the one the detective is swapped onto.
AssignLobby(n, h, first) ==
  [i \in 1..n |-> IF (first /\ i <= h) \/ (~first /\ i > n - h)
                  THEN PlayerState(i, FALSE)
                  ELSE PlayerState(None, TRUE)]

AssignInit ==
  /\ \E n \in (MIN_PLAYERS - 1)..MAX_PLAYERS, h \in 0..MaxHumans, first \in BOOLEAN :
       /\ h <= n /\ n - h <= MAX_BOTS
       /\ InGameInit(AssignLobby(n, h, first), FALSE, "lobby", 0)
  /\ handlers = [h \in 1..1 |-> Idle]
  /\ hist = [HistInit EXCEPT !.watch = TRUE]

AssignNext ==
  \/ StartGameW(DealWidth, MaxHumans)
  \/ \E h \in Slots : AssignStep(h)
  \/ \E h \in Slots : SendRoles(h)
  \/ \E h \in Slots : SendRolesDone(h)
  \/ \E h \in Slots : StartNightArmH(h)

SpecAssign == AssignInit /\ [][AssignNext]_vars

\* assign_roles has returned
RolesDealt ==
  phase = "night" \/ \E h \in Slots : handlers[h].pc \in {"assigned", "send", "sn_anim"}

HeldRoles == {players[i].role : i \in Pids}

\* C25: a start request is accepted exactly when the session is a lobby of
\* at least MIN_PLAYERS participants; a refused request has a reason and
\* leaves phase, round, roster (with the roles) and Store as they are; the
\* lobby is left only for the first night, by an accepted start, and once
\* the accepted start has run, the session is in its first night.
C25_StartGate ==
  /\ [][(hist'.reply # hist.reply /\ hist'.reply[1] = "start") =>
           ( /\ (hist'.reply[3] = "") <=> (phase = "lobby" /\ Len(players) >= MIN_PLAYERS)
             /\ (hist'.reply[3] # "") =>
                  ( /\ phase' = phase /\ round_no' = round_no
                    /\ players' = players /\ db_rows' = db_rows
                    /\ handlers' = handlers /\ countdown' = countdown ) )]_vars
  /\ [][(phase = "lobby" /\ phase' # "lobby") =>
           ( /\ phase' = "night" /\ round_no' = 1
             /\ Len(players) >= MIN_PLAYERS
             /\ \E h \in Slots : handlers[h].op = "start_game" )]_vars
  /\ [](hist.starts > 0 /\ (\A h \in Slots : handlers[h].pc = "idle")
          => phase = "night" /\ round_no = 1)
  /\ [](Len(players) < MIN_PLAYERS => phase = "lobby" /\ hist.starts = 0)

\* a lobby of exactly MIN_PLAYERS was started, and a second request, in the
\* first night, was refused
C25_Witness ==
  /\ phase = "night" /\ round_no = 1 /\ Len(players) = MIN_PLAYERS
  /\ hist.reply = <<"start", None, "game_running">>
  /\ \A h \in Slots : handlers[h].pc = "idle"

\* C26: after the role assignment every participant holds a role of the
\* enumeration, every role of the pool other than civil is held by some
\* participant, and civil is held by no more participants than the roster
\* has beyond those roles.
C26_PoolHeld ==
  RolesDealt =>
    LET pool == RolePool(Len(players))
        placed == Cardinality({i \in 1..Len(pool) : pool[i] # "civil"})
    IN /\ HeldRoles \subseteq Roles
       /\ Range(pool) \ {"civil"} \subseteq HeldRoles
       /\ Cardinality({i \in Pids : players[i].role = "civil"})
            <= (IF Len(players) > placed THEN Len(players) - placed ELSE 0)

\* C27: after the role assignment some participant holds the role mafia if
\* and only if the roster has at least MAFIA_EXTRA_THRESHOLD participants.
C27_MafiaByThreshold ==
  RolesDealt => ("mafia" \in HeldRoles <=> Len(players) >= MAFIA_EXTRA_THRESHOLD)

\* C28: after the role assignment in a roster with a human, every holder of
\* the role detective is a human and some human holds it.
C28_DetectiveHuman ==
  RolesDealt /\ (\E i \in Pids : ~players[i].is_bot) =>
    /\ \A i \in Pids : players[i].role = "detective" => ~players[i].is_bot
    /\ \E i \in Pids : ~players[i].is_bot /\ players[i].role = "detective"

\* a full roster with bots, where the swap moved the role onto one human and
\* a second human, dealt civil, drew it from active_pool for a role buff
C28_Witness ==
  /\ phase = "night" /\ Len(players) = MAX_PLAYERS
  /\ Cardinality({i \in Pids : players[i].role = "detective"}) = 2
  /\ \E i \in Pids : players[i].is_bot /\ players[i].role \in {"don", "doctor"}
  /\ "civil" \notin HeldRoles

\* C31: a night resolution replaces a role for a petrushka only if no
\* earlier night resolution of the game has replaced one for that petrushka.
C31_SwapOnce ==
  countdown.pc = "rn_pet" =>
    LET pet == Acting(players, "petrushka")
    IN pet # None /\ players[pet].night_action \in Pids
       /\ players[players[pet].night_action].alive
       => pet \notin hist.swapped

\* C32: when cancel_game has ended a session and emptied its roster, the
\* session's countdown task has ended (or none was ever created).
C32_CancelStopsCountdown ==
  [][(phase' = "ended" /\ players' = <<>> /\ (phase # "ended" \/ players # <<>>))
       => countdown'.pc \in {"none", "done", "crashed"}]_vars

\* C33: when start_new_game returns, the session is a lobby with an empty
\* roster, round 0, empty yes/no, nomination and confirmation tallies, no
\* pending candidate, the executioner's immunity unconsumed, and a game id
\* that no earlier game had.
C33_FreshLobby ==
  [][(\E h \in Slots : handlers[h].pc = "create" /\ handlers'[h].pc = "idle") =>
       ( /\ phase' = "lobby" /\ players' = <<>> /\ round_no' = 0
         /\ vote_yes_no' = EmptyDict /\ nominations' = <<>>
         /\ confirmations' = EmptyDict /\ pending_candidate' = None
         /\ executioner_immunity' = TRUE
         /\ game_id' > Len(db_games) /\ game_id' # game_id )]_vars

\* ----------------------------------------------------------------------
\* Two chats with a game each.  Chat's game has five participants, the
\* humans with the user ids 1 and 2 and three bots; the second chat's game
\* has three, a bot, the human with the user id 1 and another human.  Each
\* session is in night, day or vote (in vote a bot is the candidate), and
\* either stands first in GameManager.games.  The humans press the buttons
\* of the night, nomination and confirmation keyboards they were sent.
SessionsRoster ==
  [i \in 1..5 |->
     [PlayerState(IF i <= 2 THEN i ELSE None, i > 2) EXCEPT
        !.role = <<"doctor", "detective", "don", "executioner", "petrushka">>[i]]]

SessionsOther(ph, first) ==
  [NoOther EXCEPT
     !.phase = ph, !.before = first,
     !.players = [i \in 1..3 |->
                    [PlayerState(<<None, 1, 9>>[i], i = 1) EXCEPT
                       !.role = <<"don", "detective", "doctor">>[i]]],
     !.pending_candidate = IF ph = "vote" THEN 1 ELSE None]

SessionsInit ==
  /\ games = [k \in Keys |-> k]
  /\ lock = None
  /\ callers = [c \in Callers |-> [pc |-> "idle", key |-> None, result |-> None]]
  /\ loads = [k \in Keys |-> 0]
  /\ nextInst = NumKeys
  /\ db_games = <<StoredGame(Chat, FALSE)>>
  /\ db_rows = [i \in 1..5 |-> StoredRow(1, i, SessionsRoster[i].user_id,
                                         SessionsRoster[i].role, TRUE)]
  /\ \E ph \in {"night", "day", "vote"}, oph \in {"night", "day", "vote"},
        first \in BOOLEAN :
       /\ phase = ph
       /\ pending_candidate = IF ph = "vote" THEN 3 ELSE None
       /\ countdown = [NoTask EXCEPT
                         !.pc = IF ph = "vote" THEN "conf_wait" ELSE "sleep",
                         !.armed = [game |-> 1, round |-> 1, phase |-> ph]]
       /\ other = SessionsOther(oph, first)
  /\ round_no = 1 /\ game_id = 1 /\ bukovel = FALSE
  /\ players = SessionsRoster
  /\ vote_yes_no = EmptyDict /\ nominations = <<>> /\ confirmations = EmptyDict
  /\ executioner_immunity = TRUE
  /\ handlers = EmptyDict
  /\ hist = [HistInit EXCEPT !.watch = TRUE]

SessionsNext ==
  \/ \E u \in 1..NumPressers, target \in 1..ButtonWidth :
       HandleAction(u, "detective", target)
  \/ \E u \in 1..NumPressers, target \in 1..ButtonWidth : HandleNomination(u, target)
  \/ \E u \in 1..NumPressers, v \in BOOLEAN : HandleConfirmation(u, v)

SpecSessions == SessionsInit /\ [][SessionsNext]_vars

\* C34: when a human who lives in both sessions submits a night action, a
\* nomination or a confirmation while one of the sessions is in the matching
\* phase, the submission is accepted, a session that is not in the matching
\* phase is left as it is, and at most one session changes.
C34_SessionsIndependent ==
  [][LET op == hist'.reply[1]
         u == hist'.reply[2]
         ph == IF op = "act" THEN "night" ELSE "vote"
     IN ( /\ LivingAs(players, u) # None /\ LivingAs(other.players, u) # None
          /\ phase = ph \/ other.phase = ph )
        => ( /\ hist'.reply[3] = ""
             /\ phase # ph => UNCHANGED <<players, nominations, confirmations>>
             /\ other.phase # ph => other' = other
             /\ other' = other \/ UNCHANGED <<players, nominations, confirmations>> )]_vars

\* ----------------------------------------------------------------------
\* The second round of the ten-player game with a Notifier that may fail,
\* followed through the day into the vote of round 2.
FailingNext ==
  \/ RoundsNext
  \/ ExpireDay
  \/ StartVoteArm
  \/ NotifierFails

SpecFailing == RoundsInit /\ [][FailingNext]_vars

\* C35: after a Notifier call of a transition has failed, a session that has
\* not ended still has a countdown task that is armed or executing.
C35_FailureTolerated ==
  hist.failed /\ phase \in {"night", "day", "vote"}
    => countdown.pc \notin {"none", "done", "crashed"}

\* C36: while the night countdown is armed and waiting, every living bot with
\* a night role has a pending target that is a living participant other than
\* itself, if there is one.
C36_BotsHaveTargets ==
  phase = "night" /\ countdown.pc = "sleep" =>
    \A i \in alive_players(players) :
      /\ players[i].is_bot
      /\ players[i].role \in {"don", "mafia", "doctor", "detective", "deputy",
                              "consigliere", "petrushka"}
      /\ alive_players(players) \ {i} # {}
      => players[i].night_action \in alive_players(players) \ {i}

\* ----------------------------------------------------------------------
\* A game and the restart of the process: the first night of a five-player
\* game of humans (the don has chosen the doctor, or nobody has chosen), its
\* resolution and the end by a win, /cancel, the restart, and the commands
\* that call ensure_game for Chat when its session is not in memory.
RestartRoster(t) ==
  [Assigned(<<"doctor", "don", "petrushka", "consigliere", "detective">>, FALSE)
     EXCEPT ![2].night_action = t]

RestartInit ==
  /\ \E t \in {None, 1} : InGameInit(RestartRoster(t), FALSE, "night", 1)
  /\ handlers = EmptyDict
  /\ hist = [HistInit EXCEPT !.track = TRUE, !.nights = 1]

RestartNext ==
  \/ ExpireNight
  \/ RnDeputy
  \/ RnConsigliere
  \/ RnPetrushka
  \/ RnDoctor
  \/ RnPotato
  \/ RnKill
  \/ CheckWin
  \/ CheckWinPersist
  \/ CheckWinEnd
  \/ ResolveNightEnd
  \/ CancelGame
  \/ Restart
  \/ \E c \in Callers : games[Chat] = None /\ EnsureCall(c, Chat)
  \/ \E c \in Callers : EnsureAcquire(c)
  \/ \E c \in Callers : EnsureLoaded(c)

SpecRestart == RestartInit /\ [][RestartNext]_vars

\* C37: the game ensure_game rehydrates for a chat whose session is not in
\* memory is not one whose session had reached the phase ended.
C37_EndedNotRestored ==
  [][phase = "absent" /\ phase' # "absent" => game_id' \notin hist.over]_vars

\* C38: with the countdown of a day, of a vote or of a night after the first
\* armed, at least one mafia-aligned participant is alive and the living
\* mafia-aligned participants are fewer than the living town-aligned ones.
C38_MafiaBalance ==
  (countdown.pc = "sleep"
     /\ (phase \in {"day", "vote"} \/ (phase = "night" /\ round_no > 1)))
  => (Cardinality(mafia_side(players)) >= 1
        /\ Cardinality(mafia_side(players)) < Cardinality(civil_side(players)))

\* C39: a session in night, day or vote in which neither the countdown task
\* nor a handler is inside a transition has its countdown armed.
C39_CountdownArmed ==
  (phase \in {"night", "day", "vote"}
     /\ countdown.pc \in {"sleep", "none", "done", "crashed"}
     /\ \A h \in DOMAIN handlers : handlers[h].pc = "idle")
  => countdown.pc = "sleep"

\* C1: no countdown dispatches night resolution, the start of the vote or the
\* end of the vote in a game, round or phase other than the one it was
\* armed for.
C1_NoStaleExpiry == ~hist.stale

\* C2: an ended session stays ended until start_new_game makes it a lobby.
C2_EndedIsTerminal == [][phase = "ended" => phase' \in {"ended", "lobby"}]_vars

\* C3: the phase changes only lobby to night (by a start request that was
\* accepted and has assigned the roles), night to day, day to vote, vote to
\* night, night or vote to ended by a win, anything to ended by cancel_game
\* and anything to lobby by start_new_game.
C3_PhaseChanges ==
  [][\/ phase' = phase
     \/ phase' = "lobby" /\ \E h \in Slots : handlers'[h].pc = "create" /\ handlers[h].pc = "idle"
     \/ phase' = "ended"
     \/ /\ phase = "lobby" /\ phase' = "night"
        /\ \E h \in Slots : /\ handlers[h].op = "start_game"
                            /\ handlers[h].pc \in {"send", "buk"}
                            /\ handlers'[h].pc = "sn_anim"
     \/ <<phase, phase'>> \in {<<"night", "day">>, <<"day", "vote">>, <<"vote", "night">>}]_vars

\* C5: of two start requests for one lobby one takes effect: each
\* participant's role is stored once per game, and the round counter is 1 in
\* the first night.
C5_OneStartTakesEffect ==
  /\ \A i, j \in 1..Len(db_rows) :
       db_rows[i].game_id = db_rows[j].game_id /\ db_rows[i].name = db_rows[j].name => i = j
  /\ round_no <= 1

\* C6: when the first night's countdown is armed, every participant of the
\* roster has a role stored for this game.
C6_RolesCoverRoster ==
  phase = "night" /\ round_no = 1 /\ countdown.pc = "sleep" =>
    \A pid \in Pids : \E i \in 1..Len(db_rows) :
      db_rows[i].game_id = game_id /\ db_rows[i].name = pid

====
